---- MODULE Spec2Model ----
(***************************************************************************)
(* Capture engine of meet-scribe: the session controller                   *)
(* (WasapiAudioCapture / PulseAudioCapture), its background capture worker *)
(* and the consumers that call it through AppState.audio_capture.          *)
(***************************************************************************)
EXTENDS Integers, Sequences, FiniteSets, TLC

\* ------------------------------------------------------------------ bounds
MaxWorkers == 2        \* capture workers alive at the same time
MaxReads == 2          \* packets the OS hands to the workers, in total
MaxFrames == 1         \* frames in one WASAPI packet
ReadFrames == 1        \* frames in one PulseAudio read (1024 in the code)
MaxDeviceIndex == 1    \* largest device index a selector names
MaxLen == 6            \* bytes in one run handed to the sample converter
MaxEndpoints == 2      \* endpoints of one kind the OS enumerates
MaxMeetings == 2       \* meetings created by start_meeting, in total
MaxChunkSamples == 5   \* samples in one AudioBuffer handed to save_wav_chunks

\* --------------------------------------------------------------- constants
NoWorker == 0          \* capture_handle: None
NoOwner == "nobody"    \* AppState.audio_capture unlocked
Clients == {"c1", "c2"}
Workers == 1..MaxWorkers
Platforms == {"windows", "linux"}

\* ports/audio.rs: AudioFormat and its Default
AudioFormat(rate, ch, bits) ==
    [sample_rate |-> rate, channels |-> ch, bits_per_sample |-> bits]

DefaultFormat == AudioFormat(16000, 1, 16)

\* linux.rs: the Spec the worker asks PulseAudio for (S16le, 2 ch, 44100)
PulseSpec == AudioFormat(44100, 2, 16)

\* windows.rs: the mix format GetMixFormat reports (environment input):
\* the shared-mode engine's 32-bit float stereo, and an 8-bit stereo format,
\* a bit depth the converter has no arm for
MixFormats == {AudioFormat(48000, 2, 32), AudioFormat(48000, 2, 8)}

\* nBlockAlign of a WAVEFORMATEX: bytes in one frame
BlockAlign(fmt) == fmt.channels * (fmt.bits_per_sample \div 8)

\* ------------------------------------------------------- sample converter
\* The byte stream the OS delivers: byte number i (from 0) of the stream.
OsByte(i) == (37 * i + 11) % 256

\* The n bytes of packet number p (from 0)
OsBytes(p, n) == [k \in 1..n |-> OsByte(p * n + k - 1)]

\* mutant of I16FromLe: the two bytes are read as an unsigned value
I16FromLeUnsigned(b0, b1) == b0 + 256 * b1

\* i16::from_le_bytes
I16FromLe(b0, b1) ==
    LET u == b0 + 256 * b1
    IN  IF u >= 32768 THEN u - 65536 ELSE u

\* i32::from_le_bytes
I32FromLe(b0, b1, b2, b3) ==
    LET low == b0 + 256 * b1 + 65536 * b2
    IN  IF b3 >= 128 THEN low + 16777216 * (b3 - 256) ELSE low + 16777216 * b3

\* A normalised f32 sample is kept as the exact quotient num / den;
\* den = 0 marks an IEEE-754 bit pattern passed through unchanged (num is
\* the pattern read as a two's-complement 32-bit integer).
Sample(n, d) == [num |-> n, den |-> d]

\* mutant of ChunksExact: the groups are aligned to the end of the run, the
\* leading remainder is dropped
ChunksFromEnd(data, w) ==
    [k \in 1..(Len(data) \div w) |->
        SubSeq(data, (Len(data) % w) + (k - 1) * w + 1, (Len(data) % w) + k * w)]

\* slice::chunks_exact(w): the whole w-byte groups of data, remainder dropped
ChunksExact(data, w) ==
    [k \in 1..(Len(data) \div w) |-> SubSeq(data, (k - 1) * w + 1, k * w)]

\* mutant of convert_samples_to_f32: every encoding is read as 16-bit PCM
convert_samples_as_pcm16(data, bits) ==
    [k \in 1..(Len(data) \div 2) |->
        LET c == ChunksExact(data, 2)[k]
        IN  Sample(I16FromLe(c[1], c[2]), 32768)]

\* windows.rs convert_samples_to_f32
convert_samples_to_f32(data, bits) ==
    CASE bits = 16 ->
           [k \in 1..(Len(data) \div 2) |->
               LET c == ChunksExact(data, 2)[k]
               IN  Sample(I16FromLe(c[1], c[2]), 32768)]
      [] bits = 32 ->
           [k \in 1..(Len(data) \div 4) |->
               LET c == ChunksExact(data, 4)[k]
               IN  Sample(I32FromLe(c[1], c[2], c[3], c[4]), 0)]
      [] bits = 24 ->
           [k \in 1..(Len(data) \div 3) |->
               LET c == ChunksExact(data, 3)[k]
               IN  Sample(I32FromLe(0, c[1], c[2], c[3]), 8388608)]
      [] OTHER -> <<>>

\* linux.rs: the read loop's chunks_exact(2) + i16::from_le_bytes
BytesToI16(data) ==
    [k \in 1..(Len(data) \div 2) |->
        LET c == ChunksExact(data, 2)[k] IN I16FromLe(c[1], c[2])]

\* linux.rs convert_samples
convert_samples(samples) ==
    [k \in 1..Len(samples) |-> Sample(samples[k], 32768)]

\* ------------------------------------------------------------------ state
VARIABLES
    platform,        \* which adapter is compiled in (cfg(target_os))
    ctl_owner,       \* holder of AppState.audio_capture (the &mut self borrow)
    is_capturing,    \* Arc<Mutex<bool>>
    audio_buffer,    \* Arc<Mutex<Vec<f32>>>
    format,          \* self.format
    capture_handle,  \* self.capture_handle: None or the worker's JoinHandle
    format_info,     \* per start_capture call: Arc<Mutex<AudioFormat>>
    worker,          \* each worker thread: position, local format, exit cause
    nreads,          \* packets the OS has produced for the capture handle
    os_unread,       \* the OS capture handle holds a packet not yet read
    cpc,             \* each client's position
    last_return,     \* history: the call that returned last, and its result
    appended,        \* history: every sample appended, in order
    delivered,       \* history: every sample returned by get_audio_buffer
    raceStart,       \* history: both clients issued start_capture on an idle controller
    raceResults,     \* history: what the calls of that race returned, in order
    sinceStop,       \* history: a stop_capture of an active session returned Ok, no start since
    fresh,           \* history: samples were appended after the last get_audio_buffer
    captured_as,     \* history: for each buffered sample, the format of the worker that appended it
    conv,            \* a call of the sample converter: its input and its output
    lister,          \* a call of list_devices / list_speaker_devices / list_microphone_devices
    wav,             \* a call of save_wav_file: its AudioBuffer and the file it wrote
    sel,             \* a start_capture(device_name): the selector, its device_index, the endpoint it opens
    mtg,             \* the meeting commands: current_meeting_id, the meetings table, the commands in flight
    tx,              \* the transcription commands: the current_transcription marker, the calls, the background task
    svc,             \* activate_service: the service_configs table and the calls in flight
    stream,          \* streaming transcription: active_session, meeting_id, the commands in flight
    chunker,         \* a call of save_wav_chunks: its buffer, the chunks left, the files written
    lk               \* the flag lock and the buffer lock: their holders, seen one lock operation at a time

vars == <<platform, chunker, stream, svc, tx, mtg, sel, conv, lister, wav, lk, ctl_owner, is_capturing, audio_buffer, captured_as, format,
          capture_handle, format_info, worker, nreads, os_unread, cpc,
          last_return, appended, delivered, raceStart, raceResults, sinceStop, fresh>>

workerVars == <<format_info, worker, nreads, os_unread, appended>>

\* A worker slot. pc "unborn"/"done": no thread lives in the slot.
\*   format   the thread's local WAVEFORMATEX / Spec
\*   exit     why the thread left (kept until the slot is spawned again)
\*   appended whether the thread has appended samples
\*   started  whether the start_capture call that spawned it has returned Ok
\*   com      initialisations of the OS subsystem (COM apartment, PulseAudio
\*            connection) the thread has made and not yet released
\*   client   the audio client: "idle", "started" or "stopped"
\*   late     read-and-append steps the thread completed since the flag was
\*            cleared under it
\*   last     what the thread's last packet was: "none" (no packet yet),
\*            "silent" (flagged silent), "empty" (no frames), "unknown" (frames
\*            the converter made no samples of) or "samples"
NoThread ==
    [pc |-> "unborn", format |-> DefaultFormat, exit |-> "none",
     appended |-> FALSE, started |-> FALSE, com |-> 0, client |-> "idle",
     late |-> 0, last |-> "none"]

\* What a controller call handed back to its caller
Return(o, r) == [op |-> o, res |-> r]
NoReturn == Return("none", "none")

\* A call of the start race returns r
RaceReturn(r) ==
    raceResults' = IF raceStart THEN Append(raceResults, r) ELSE raceResults

\* is_capturing() and get_format(): synchronous observers
IsCapturing == is_capturing
GetFormat == format

\* No converter call has been made
NoConv == [bits |-> 0, data |-> <<>>, out |-> <<>>, calls |-> 0, dropped |-> 0]

\* No device-listing call has been made
\*   devices   the Vec<String> being built; an entry "N: name (kind)" is kept
\*             as its index N and its kind
\*   res       "pending", "Ok" (with devices) or "Err"
\*   com       COM initialisations not yet closed by CoUninitialize
\*   lock      times the mainloop lock is held
\*   mainloop  "none", "created", "running" or "stopped"
\*   context   "none", "created", "connecting", "ready", "failed" or "disconnected"
\*   speakers  speaker_count / the sinks seen
NoLister ==
    [fn |-> "none", pc |-> "idle", devices |-> <<>>, res |-> "none",
     com |-> 0, lock |-> 0, mainloop |-> "none", context |-> "none",
     speakers |-> 0]

\* hound::WavSpec, the header of the file
WavSpec(ch, rate, bits, fmt) ==
    [channels |-> ch, sample_rate |-> rate, bits_per_sample |-> bits,
     sample_format |-> fmt]

\* No save_wav_file call has been made
\*   samples, format   the AudioBuffer handed in
\*   spec              the WavSpec the writer was created with
\*   written           the values handed to write_sample, in order
\*   res               "none", "Ok" (with Len(written)) or "Err"
NoWav ==
    [pc |-> "idle", samples |-> <<>>, format |-> DefaultFormat,
     spec |-> WavSpec(0, 0, 0, "none"), written |-> <<>>, res |-> "none"]

\* Threads that take the flag lock and the buffer lock
Threads == {"worker", "caller"}

\* No thread runs and both locks are free
\*   flag         the value of is_capturing
\*   flag_lock    holder of the is_capturing mutex, or "free"
\*   buffer_lock  holder of the audio_buffer mutex, or "free"
\*   pc           each thread's position
\*   chunks       chunks in the sample buffer
\*   reads        reads the worker has made
\*   handle       capture_handle is Some
NoLocks ==
    [flag |-> FALSE, flag_lock |-> "free", buffer_lock |-> "free",
     pc |-> [t \in Threads |-> "idle"], chunks |-> 0, reads |-> 0,
     handle |-> FALSE]

\* No start_capture(device_name) is being resolved
\*   pc        "idle", "called", "parsed" or "resolved"
\*   given     the device_name argument is Some(text)
\*   selector  the text, one character per element
\*   entry     the entry of the list the text was taken from (kind "none": not from the list)
\*   count     the active render endpoints at the time of the call (Windows)
\*   index     device_index
\*   res       "none", "Ok" or "Err"
\*   endpoint  the endpoint that is opened
\*   os_failed an operating-system call of the resolution failed
NoSel ==
    [pc |-> "idle", selector |-> <<>>, given |-> FALSE,
     entry |-> [index |-> 0, kind |-> "none"], count |-> 0,
     index |-> 0, res |-> "none", endpoint |-> [flow |-> "none", item |-> 0],
     os_failed |-> FALSE]

\* Rows of the meetings table; MaxMeetings bounds the rows ever inserted
MeetingIds == 1..MaxMeetings

\* The meetings table is empty, no command runs, nothing is captured
\*   current_meeting_id  AppState.current_meeting_id: 0 (None) or Some(id)
\*   rows                per id: the row exists, its end_time column is not NULL
\*   created             rows inserted so far (last_insert_rowid)
\*   audio_capture       holder of AppState.audio_capture (the tokio Mutex)
\*   is_capturing        the controller's flag
\*   capture             the capture worker: "none", "init" or "running"
\*   fg                  each client's command: function, position, meeting id,
\*                       its Meeting value's end_time, its result
\*   bg                  the task spawned by each client's stop_meeting
\*   delete_failed       per id: delete_meeting returned Err for it
NoMeetings ==
    [current_meeting_id |-> 0,
     rows |-> [i \in MeetingIds |-> [exists |-> FALSE, end_time |-> FALSE]],
     created |-> 0,
     audio_capture |-> NoOwner,
     is_capturing |-> FALSE,
     capture |-> "none",
     fg |-> [c \in Clients |-> [fn |-> "none", pc |-> "idle", id |-> 0,
                                end_time |-> FALSE, res |-> "none"]],
     bg |-> [c \in Clients |-> [pc |-> "idle", id |-> 0, end_time |-> FALSE,
                                audio_file_path |-> FALSE]],
     delete_failed |-> [i \in MeetingIds |-> FALSE]]

\* TranscriptionState after initialize_app: no transcription, no command
\*   current_transcription  the marker: 0 (None) or Some(meeting_id)
\*   cmd     each client's start_transcription: position, meeting id, result
\*   task    the spawned background task: position and meeting id
\*   status  what each client's last get_transcription_status returned
\*   idle_reject  history: a start was rejected as already in progress while
\*                no task ran and no other start was under way
NoTranscription ==
    [current_transcription |-> 0,
     cmd |-> [c \in Clients |-> [pc |-> "idle", id |-> 0, res |-> "none"]],
     task |-> [pc |-> "idle", id |-> 0],
     status |-> [c \in Clients |-> 0],
     idle_reject |-> FALSE]

\* Rows the service_configs table can hold, in the order of
\* list_service_configs (ORDER BY service_type, provider)
ConfigOrder ==
    << [service_type |-> "asr", provider |-> "assemblyai"],
       [service_type |-> "asr", provider |-> "deepgram"],
       [service_type |-> "llm", provider |-> "openai"] >>

Configs == {ConfigOrder[k] : k \in 1..Len(ConfigOrder)}

ServiceTypes == {cfg.service_type : cfg \in Configs}

\* No service is configured and no activate_service runs
\*   rows       per configuration: the row exists, its is_active column
\*   call       each client's activate_service: position, its arguments, the
\*              entries of the list it read that it has still to save,
\*              whether it has written a row, its result
\*   activated  history, per type: an activate_service for it returned Ok
\*   partial    history, per type: an activate_service for it returned Err
\*              after it had written
NoServices ==
    [rows |-> [cfg \in Configs |-> [exists |-> FALSE, is_active |-> FALSE]],
     call |-> [c \in Clients |-> [pc |-> "idle", config |-> ConfigOrder[1],
                                  todo |-> <<>>, wrote |-> FALSE, res |-> "none"]],
     activated |-> [t \in ServiceTypes |-> FALSE],
     partial |-> [t \in ServiceTypes |-> FALSE]]

\* active_session: None
NoSession == [meeting |-> 0, by |-> NoOwner]

\* StreamingTranscriptionState::new(): no session, no meeting id
\*   active_session  None, or the session: who opened it, for which meeting
\*   meeting_id      0 (None) or Some(id)
\*   lock            the holder of the active_session mutex
\*   cmd             each client's command: function, position, meeting id,
\*                   the session taken out by stop, its result
\*   status          what each client's last status call returned
NoStreaming ==
    [active_session |-> NoSession,
     meeting_id |-> 0,
     lock |-> NoOwner,
     cmd |-> [c \in Clients |-> [fn |-> "none", pc |-> "idle", id |-> 0,
                                 session |-> NoSession, res |-> "none"]],
     status |-> [c \in Clients |-> [is_active |-> FALSE, meeting_id |-> 0]]]

\* No save_wav_chunks call has been made
\*   pc                  "idle", "loop" or "returned"
\*   samples, format     the AudioBuffer
\*   chunk_duration_secs the argument
\*   todo                the chunks the loop has still to save
\*   chunk_index         the loop's counter
\*   files               the files written, in order: name suffix, the
\*                       samples of the chunk buffer, the values written
\*   res                 "none", "Ok", "Err" or "panic"
NoChunks ==
    [pc |-> "idle", samples |-> <<>>, format |-> DefaultFormat,
     chunk_duration_secs |-> 0, todo |-> <<>>, chunk_index |-> 0,
     files |-> <<>>, res |-> "none"]

\* WasapiAudioCapture::new() / PulseAudioCapture::new()
ControllerNew ==
    /\ ctl_owner = NoOwner
    /\ is_capturing = FALSE
    /\ audio_buffer = <<>>
    /\ captured_as = <<>>
    /\ format = DefaultFormat
    /\ capture_handle = NoWorker
    /\ format_info = [w \in Workers |-> DefaultFormat]
    /\ worker = [w \in Workers |-> NoThread]
    /\ nreads = 0
    /\ os_unread = FALSE
    /\ cpc = [c \in Clients |-> "idle"]
    /\ last_return = NoReturn
    /\ appended = <<>>
    /\ delivered = <<>>
    /\ raceStart = FALSE
    /\ raceResults = <<>>
    /\ sinceStop = FALSE
    /\ fresh = FALSE

Init ==
    /\ platform \in Platforms
    /\ ControllerNew
    /\ conv = NoConv
    /\ lister = NoLister
    /\ wav = NoWav
    /\ lk = NoLocks
    /\ chunker = NoChunks
    /\ stream = NoStreaming
    /\ svc = NoServices
    /\ tx = NoTranscription
    /\ mtg = NoMeetings
    /\ sel = NoSel

\* ------------------------------------------------------- session controller
\* mutant of BufferExtend: new samples are put in front of the buffered ones
BufferExtendPrepend(buf, samples) == samples \o buf

\* Vec::extend under the buffer lock
BufferExtend(buf, samples) == buf \o samples

\* mutant of BufferIsEmpty: the emptiness test is missing
BufferIsEmptyNever(buf) == FALSE

\* buffer.is_empty()
BufferIsEmpty(buf) == buf = <<>>

\* mutant of JoinReady: stop_capture does not wait for the worker
JoinReadyNoWait(h) == TRUE

\* handle.await: the JoinHandle resolves once the worker's closure returned
JoinReady(h) == h = NoWorker \/ worker[h].pc = "done"

\* start_capture calls that hold or await the controller and may still spawn
StartsInFlight == {c \in Clients : cpc[c] \in {"start_wait", "start_spawn"}}

\* worker slots whose thread has not been spawned or has returned
FreeSlots == {w \in Workers : worker[w].pc \in {"unborn", "done"}}

MinOf(S) == CHOOSE x \in S : \A y \in S : x <= y

\* A client issues start_capture and awaits AppState.audio_capture.lock()
CallStart(c) ==
    /\ cpc[c] = "idle"
    /\ Cardinality(StartsInFlight) < Cardinality(FreeSlots)
    /\ cpc' = [cpc EXCEPT ![c] = "start_wait"]
    /\ raceStart' = (/\ \E d \in Clients \ {c} : cpc[d] = "start_wait"
                     /\ ctl_owner = NoOwner
                     /\ ~is_capturing)
    /\ raceResults' = <<>>
    /\ UNCHANGED <<platform, chunker, stream, svc, tx, mtg, sel, conv, lister, wav, lk, ctl_owner, is_capturing, audio_buffer, captured_as, format,
                   capture_handle, last_return, delivered, sinceStop, fresh>>
    /\ UNCHANGED workerVars

\* mutant of StartBegin: the rejection path resets the flag
StartBeginClearsOnReject(c) ==
    /\ cpc[c] = "start_wait"
    /\ ctl_owner = NoOwner
    /\ IF is_capturing
       THEN /\ last_return' = Return("start", "AlreadyCapturing")
            /\ RaceReturn("AlreadyCapturing")
            /\ cpc' = [cpc EXCEPT ![c] = "idle"]
            /\ is_capturing' = FALSE
            /\ UNCHANGED <<ctl_owner, sinceStop>>
       ELSE /\ is_capturing' = TRUE
            /\ ctl_owner' = c
            /\ cpc' = [cpc EXCEPT ![c] = "start_spawn"]
            /\ sinceStop' = FALSE
            /\ UNCHANGED <<last_return, raceResults>>
    /\ UNCHANGED <<platform, chunker, stream, svc, tx, mtg, sel, conv, lister, wav, lk, audio_buffer, captured_as, format, capture_handle, delivered,
                   raceStart, fresh>>
    /\ UNCHANGED workerVars

\* mutant of StartBegin: a worker handle left behind also counts as capturing
StartBeginRejectsIfHandle(c) ==
    /\ cpc[c] = "start_wait"
    /\ ctl_owner = NoOwner
    /\ IF is_capturing \/ capture_handle # NoWorker
       THEN /\ last_return' = Return("start", "AlreadyCapturing")
            /\ RaceReturn("AlreadyCapturing")
            /\ cpc' = [cpc EXCEPT ![c] = "idle"]
            /\ UNCHANGED <<ctl_owner, is_capturing, sinceStop>>
       ELSE /\ is_capturing' = TRUE
            /\ ctl_owner' = c
            /\ cpc' = [cpc EXCEPT ![c] = "start_spawn"]
            /\ sinceStop' = FALSE
            /\ UNCHANGED <<last_return, raceResults>>
    /\ UNCHANGED <<platform, chunker, stream, svc, tx, mtg, sel, conv, lister, wav, lk, audio_buffer, captured_as, format, capture_handle, delivered,
                   raceStart, fresh>>
    /\ UNCHANGED workerVars

\* start_capture, first block: test and set of the flag under its lock
StartBegin(c) ==
    /\ cpc[c] = "start_wait"
    /\ ctl_owner = NoOwner
    /\ IF is_capturing
       THEN /\ last_return' = Return("start", "AlreadyCapturing")
            /\ RaceReturn("AlreadyCapturing")
            /\ cpc' = [cpc EXCEPT ![c] = "idle"]
            /\ UNCHANGED <<ctl_owner, is_capturing, sinceStop>>
       ELSE /\ is_capturing' = TRUE
            /\ ctl_owner' = c
            /\ cpc' = [cpc EXCEPT ![c] = "start_spawn"]
            /\ sinceStop' = FALSE
            /\ UNCHANGED <<last_return, raceResults>>
    /\ UNCHANGED <<platform, chunker, stream, svc, tx, mtg, sel, conv, lister, wav, lk, audio_buffer, captured_as, format, capture_handle, delivered,
                   raceStart, fresh>>
    /\ UNCHANGED workerVars

\* start_capture: format_info cell, spawn_blocking, capture_handle = Some(handle)
StartSpawnWorker(c) ==
    /\ LET w == MinOf(FreeSlots)
       IN  /\ format_info' = [format_info EXCEPT ![w] = DefaultFormat]
           /\ worker' = [worker EXCEPT ![w] =
                           [NoThread EXCEPT !.pc = IF platform = "windows"
                                                   THEN "init_com" ELSE "store_format"]]
           /\ capture_handle' = w
    /\ os_unread' = FALSE
    /\ cpc' = [cpc EXCEPT ![c] = "start_sleep"]
    /\ UNCHANGED <<platform, chunker, stream, svc, tx, mtg, sel, conv, lister, wav, lk, ctl_owner, is_capturing, audio_buffer, captured_as, format,
                   nreads, last_return, appended, delivered, raceStart,
                   raceResults, sinceStop, fresh>>

\* linux.rs get_device_name_by_index: the PulseAudio source name, always Ok
get_device_name_by_index(device_index) ==
    [ok |-> TRUE,
     name |-> IF device_index = 0 THEN "@DEFAULT_MONITOR@" ELSE "device_N"]

\* start_capture after the flag is set: (Linux) resolve the device name with `?`,
\* then the format_info cell, spawn_blocking, capture_handle = Some(handle)
StartSpawn(c) ==
    /\ cpc[c] = "start_spawn"
    /\ \E device_index \in 0..MaxDeviceIndex :
         IF platform = "linux" /\ ~get_device_name_by_index(device_index).ok
         THEN /\ last_return' = Return("start", "DeviceError")
              /\ RaceReturn("DeviceError")
              /\ cpc' = [cpc EXCEPT ![c] = "idle"]
              /\ ctl_owner' = NoOwner
              /\ UNCHANGED <<platform, chunker, stream, svc, tx, mtg, sel, conv, lister, wav, lk, is_capturing, audio_buffer, captured_as, format,
                             capture_handle, delivered, raceStart, sinceStop, fresh>>
              /\ UNCHANGED workerVars
         ELSE StartSpawnWorker(c)

\* The format_info cell is dropped once the caller has returned and the worker
\* has returned: nothing reads it any more.
CellAfter(w, thread_done, caller_done) ==
    IF thread_done /\ caller_done THEN DefaultFormat ELSE format_info[w]

\* start_capture: the 100 ms sleep is over; copy format_info, return Ok.
\* The caller holds the controller, so capture_handle is the worker it spawned.
StartReturn(c) ==
    /\ cpc[c] = "start_sleep"
    /\ LET w == capture_handle
       IN  /\ format' = format_info[w]
           /\ worker' = [worker EXCEPT ![w].started = TRUE]
           /\ format_info' = [format_info EXCEPT
                                ![w] = CellAfter(w, worker[w].pc = "done", TRUE)]
    /\ last_return' = Return("start", "Ok")
    /\ RaceReturn("Ok")
    /\ cpc' = [cpc EXCEPT ![c] = "idle"]
    /\ ctl_owner' = NoOwner
    /\ UNCHANGED <<platform, chunker, stream, svc, tx, mtg, sel, conv, lister, wav, lk, is_capturing, audio_buffer, captured_as, capture_handle, nreads,
                   os_unread,
                   appended, delivered, raceStart, sinceStop, fresh>>

\* A client locks AppState.audio_capture and enters stop_capture
CallStop(c) ==
    /\ cpc[c] = "idle"
    /\ ctl_owner = NoOwner
    /\ ctl_owner' = c
    /\ cpc' = [cpc EXCEPT ![c] = "stop_check"]
    /\ raceStart' = FALSE
    /\ raceResults' = <<>>
    /\ UNCHANGED <<platform, chunker, stream, svc, tx, mtg, sel, conv, lister, wav, lk, is_capturing, audio_buffer, captured_as, format, capture_handle,
                   last_return, delivered, sinceStop, fresh>>
    /\ UNCHANGED workerVars

\* mutant of StopBegin: the inactive path drops the worker handle
StopBeginTakesHandle(c) ==
    /\ cpc[c] = "stop_check"
    /\ IF ~is_capturing
       THEN /\ last_return' = Return("stop", "Ok")
            /\ cpc' = [cpc EXCEPT ![c] = "idle"]
            /\ ctl_owner' = NoOwner
            /\ capture_handle' = NoWorker
            /\ UNCHANGED is_capturing
       ELSE /\ is_capturing' = FALSE
            /\ cpc' = [cpc EXCEPT ![c] = "stop_join"]
            /\ UNCHANGED <<last_return, ctl_owner, capture_handle>>
    /\ UNCHANGED <<platform, chunker, stream, svc, tx, mtg, sel, conv, lister, wav, lk, audio_buffer, captured_as, format, delivered,
                   raceStart, raceResults, sinceStop, fresh>>
    /\ UNCHANGED workerVars

\* stop_capture, first block: return Ok if inactive, else clear the flag
StopBegin(c) ==
    /\ cpc[c] = "stop_check"
    /\ IF ~is_capturing
       THEN /\ last_return' = Return("stop", "Ok")
            /\ cpc' = [cpc EXCEPT ![c] = "idle"]
            /\ ctl_owner' = NoOwner
            /\ UNCHANGED is_capturing
       ELSE /\ is_capturing' = FALSE
            /\ cpc' = [cpc EXCEPT ![c] = "stop_join"]
            /\ UNCHANGED <<last_return, ctl_owner>>
    /\ UNCHANGED <<platform, chunker, stream, svc, tx, mtg, sel, conv, lister, wav, lk, audio_buffer, captured_as, format, capture_handle, delivered,
                   raceStart, raceResults, sinceStop, fresh>>
    /\ UNCHANGED workerVars

\* mutant of StopJoin: stopping puts the placeholder format back
StopJoinResetsFormat(c) ==
    /\ cpc[c] = "stop_join"
    /\ JoinReady(capture_handle)
    /\ capture_handle' = NoWorker
    /\ format' = DefaultFormat
    /\ last_return' = Return("stop", "Ok")
    /\ cpc' = [cpc EXCEPT ![c] = "idle"]
    /\ ctl_owner' = NoOwner
    /\ sinceStop' = TRUE
    /\ UNCHANGED <<platform, chunker, stream, svc, tx, mtg, sel, conv, lister, wav, lk, is_capturing, audio_buffer, captured_as, delivered,
                   raceStart, raceResults, fresh>>
    /\ UNCHANGED workerVars

\* mutant of StopJoin: stopping empties the sample buffer
StopJoinClearsBuffer(c) ==
    /\ cpc[c] = "stop_join"
    /\ JoinReady(capture_handle)
    /\ capture_handle' = NoWorker
    /\ audio_buffer' = <<>>
    /\ captured_as' = <<>>
    /\ last_return' = Return("stop", "Ok")
    /\ cpc' = [cpc EXCEPT ![c] = "idle"]
    /\ ctl_owner' = NoOwner
    /\ sinceStop' = TRUE
    /\ UNCHANGED <<platform, chunker, stream, svc, tx, mtg, sel, conv, lister, wav, lk, is_capturing, format, delivered,
                   raceStart, raceResults, fresh>>
    /\ UNCHANGED workerVars

\* stop_capture: capture_handle.take(), await the worker, return Ok
StopJoin(c) ==
    /\ cpc[c] = "stop_join"
    /\ JoinReady(capture_handle)
    /\ capture_handle' = NoWorker
    /\ last_return' = Return("stop", "Ok")
    /\ cpc' = [cpc EXCEPT ![c] = "idle"]
    /\ ctl_owner' = NoOwner
    /\ sinceStop' = TRUE
    /\ UNCHANGED <<platform, chunker, stream, svc, tx, mtg, sel, conv, lister, wav, lk, is_capturing, audio_buffer, captured_as, format, delivered,
                   raceStart, raceResults, fresh>>
    /\ UNCHANGED workerVars

\* A client locks AppState.audio_capture and enters get_audio_buffer
CallGet(c) ==
    /\ cpc[c] = "idle"
    /\ ctl_owner = NoOwner
    /\ ctl_owner' = c
    /\ cpc' = [cpc EXCEPT ![c] = "get_check"]
    /\ raceStart' = FALSE
    /\ raceResults' = <<>>
    /\ UNCHANGED <<platform, chunker, stream, svc, tx, mtg, sel, conv, lister, wav, lk, is_capturing, audio_buffer, captured_as, format, capture_handle,
                   last_return, delivered, sinceStop, fresh>>
    /\ UNCHANGED workerVars

\* get_audio_buffer: None if empty, else Some(drain(..)) tagged with
\* self.format; the returned samples are recorded at the end of delivered
GetAudioBuffer(c) ==
    /\ cpc[c] = "get_check"
    /\ IF BufferIsEmpty(audio_buffer)
       THEN /\ last_return' = Return("get", "None")
            /\ UNCHANGED <<audio_buffer, captured_as, delivered>>
       ELSE /\ last_return' = Return("get", "Some")
            /\ audio_buffer' = <<>>
            /\ captured_as' = <<>>
            /\ delivered' = delivered \o audio_buffer
    /\ fresh' = FALSE
    /\ cpc' = [cpc EXCEPT ![c] = "idle"]
    /\ ctl_owner' = NoOwner
    /\ UNCHANGED <<platform, chunker, stream, svc, tx, mtg, sel, conv, lister, wav, lk, is_capturing, format, capture_handle, raceStart,
                   raceResults, sinceStop>>
    /\ UNCHANGED workerVars

\* ------------------------------------------------------------ capture worker
ctlFrame == UNCHANGED <<platform, chunker, stream, svc, tx, mtg, sel, conv, lister, wav, lk, ctl_owner, format, capture_handle, cpc,
                        last_return, delivered, raceStart, raceResults, sinceStop>>

noAppend == UNCHANGED <<audio_buffer, captured_as, appended, nreads, os_unread, fresh>>

\* The worker moves on inside its closure
WorkerGoto(w, next) ==
    /\ worker' = [worker EXCEPT ![w].pc = next]
    /\ UNCHANGED format_info

\* The worker's closure returns: its locals and its clone of format_info die;
\* com is what the thread leaves unreleased, client the state it leaves the
\* audio client in
WorkerExit(w, cause, com, client) ==
    /\ worker' = [worker EXCEPT ![w] =
                    [NoThread EXCEPT !.pc = "done", !.exit = cause,
                                     !.started = worker[w].started,
                                     !.com = com, !.client = client]]
    /\ format_info' = [format_info EXCEPT
                         ![w] = CellAfter(w, TRUE, worker[w].started)]

\* mutant of CoUninitialize: the call is missing
CoUninitializeSkipped(com) == com

\* CoUninitialize(): closes one initialisation of COM on the calling thread
CoUninitialize(com) == com - 1

\* drop of the Simple connection at the end of the Linux closure
DropSimple(com) == com - 1

\* An initialisation step of the Windows worker failed: clear the flag,
\* CoUninitialize (not after a failed init_com) and return from the closure.
\* CoUninitialize and the return touch thread-local state only and are
\* folded into the step that precedes them.
WinInitFail(w) ==
    /\ is_capturing' = FALSE
    /\ WorkerExit(w, "init_failed",
                  IF worker[w].pc = "init_com" THEN worker[w].com
                  ELSE CoUninitialize(worker[w].com),
                  worker[w].client)
    /\ noAppend

WinInitOk(w, next) ==
    /\ WorkerGoto(w, next)
    /\ UNCHANGED is_capturing /\ noAppend

\* Self::init_com()
WinInitCom(w) ==
    /\ platform = "windows"
    /\ worker[w].pc = "init_com"
    /\ \E ok \in BOOLEAN :
         IF ok
         THEN /\ worker' = [worker EXCEPT ![w].pc = "get_device", ![w].com = @ + 1]
              /\ UNCHANGED <<is_capturing, format_info>> /\ noAppend
         ELSE WinInitFail(w)
    /\ ctlFrame

\* Self::get_device_by_index(device_index)
WinGetDevice(w) ==
    /\ platform = "windows"
    /\ worker[w].pc = "get_device"
    /\ \E ok \in BOOLEAN : IF ok THEN WinInitOk(w, "activate") ELSE WinInitFail(w)
    /\ ctlFrame

\* device.Activate::<IAudioClient>()
WinActivate(w) ==
    /\ platform = "windows"
    /\ worker[w].pc = "activate"
    /\ \E ok \in BOOLEAN : IF ok THEN WinInitOk(w, "init_client") ELSE WinInitFail(w)
    /\ ctlFrame

\* Self::initialize_audio_client(): GetMixFormat + Initialize, then the
\* detected format is stored in format_info
WinInitializeClient(w) ==
    /\ platform = "windows"
    /\ worker[w].pc = "init_client"
    /\ \/ WinInitFail(w)
       \/ \E mf \in MixFormats :
            /\ worker' = [worker EXCEPT ![w].pc = "get_service", ![w].format = mf]
            /\ format_info' = [format_info EXCEPT ![w] = mf]
            /\ UNCHANGED is_capturing /\ noAppend
    /\ ctlFrame

\* audio_client.GetService::<IAudioCaptureClient>()
WinGetService(w) ==
    /\ platform = "windows"
    /\ worker[w].pc = "get_service"
    /\ \E ok \in BOOLEAN : IF ok THEN WinInitOk(w, "start") ELSE WinInitFail(w)
    /\ ctlFrame

\* capture_loop: audio_client.Start(); on failure return (then CoUninitialize)
WinStart(w) ==
    /\ platform = "windows"
    /\ worker[w].pc = "start"
    /\ \E ok \in BOOLEAN :
         IF ok
         THEN /\ worker' = [worker EXCEPT ![w].pc = "loop", ![w].client = "started"]
              /\ UNCHANGED format_info
         ELSE WorkerExit(w, "start_failed", CoUninitialize(worker[w].com),
                         worker[w].client)
    /\ UNCHANGED is_capturing /\ noAppend
    /\ ctlFrame

\* mutant of AfterAppend: the body goes on to the next read without
\* re-evaluating the loop condition
AfterAppendReadsOn(p) == IF p = "windows" THEN "packet" ELSE "read"

\* The end of the loop body: back to the loop condition
AfterAppend(p) == "loop"

\* capture_loop: while *is_capturing.lock().unwrap()
WinLoopCheck(w) ==
    /\ platform = "windows"
    /\ worker[w].pc = "loop"
    /\ worker' = [worker EXCEPT
                    ![w].pc = IF is_capturing THEN "packet" ELSE "stop",
                    ![w].exit = IF is_capturing THEN @ ELSE "flag_cleared",
                    ![w].late = 0]
    /\ UNCHANGED <<is_capturing, format_info>> /\ noAppend
    /\ ctlFrame

\* mutant of PacketNext: a failed packet-size query is tried again
PacketNextRetry(r) ==
    CASE r = "zero" -> "loop"
      [] r = "err" -> "loop"
      [] OTHER -> "get_buffer"

\* capture_loop: where the result of GetNextPacketSize() leads: Err breaks
\* out of the loop, 0 goes back to the loop condition, > 0 to GetBuffer
PacketNext(r) ==
    CASE r = "err" -> "stop"
      [] r = "zero" -> "loop"
      [] OTHER -> "get_buffer"

\* capture_loop: sleep 10 ms, GetNextPacketSize()
WinPacket(w) ==
    /\ platform = "windows"
    /\ worker[w].pc = "packet"
    /\ \E r \in {"err", "zero", "some"} :
         /\ r = "some" => os_unread
         /\ r = "zero" => ~os_unread
         /\ worker' = [worker EXCEPT
                         ![w].pc = PacketNext(r),
                         ![w].exit = IF r = "err" THEN "io_error" ELSE @]
    /\ UNCHANGED <<is_capturing, format_info>> /\ noAppend
    /\ ctlFrame

\* mutant of Audible: the silent flag is not looked at
AudibleIgnoresSilent(silent, num_frames_available) == num_frames_available > 0

\* capture_loop: (flags & AUDCLNT_BUFFERFLAGS_SILENT) == 0 && num_frames_available > 0
Audible(silent, num_frames_available) == ~silent /\ num_frames_available > 0

\* capture_loop: GetBuffer(); unless silent, convert and append; ReleaseBuffer
WinGetBuffer(w) ==
    /\ platform = "windows"
    /\ worker[w].pc = "get_buffer"
    /\ \/ /\ worker' = [worker EXCEPT ![w].pc = "stop", ![w].exit = "io_error"]
          /\ noAppend
       \/ \E silent \in BOOLEAN, num_frames_available \in 0..MaxFrames :
            LET data_size == num_frames_available * BlockAlign(worker[w].format)
                samples == IF Audible(silent, num_frames_available)
                           THEN convert_samples_to_f32(OsBytes(nreads - 1, data_size),
                                                       worker[w].format.bits_per_sample)
                           ELSE <<>>
                last == CASE num_frames_available = 0 -> "empty"
                          [] silent -> "silent"
                          [] samples = <<>> -> "unknown"
                          [] OTHER -> "samples"
            IN  /\ audio_buffer' = BufferExtend(audio_buffer, samples)
                /\ captured_as' = captured_as \o [k \in 1..Len(samples) |-> worker[w].format]
                /\ appended' = appended \o samples
                /\ fresh' = (fresh \/ samples # <<>>)
                /\ os_unread' = FALSE
                /\ UNCHANGED nreads
                /\ worker' = [worker EXCEPT
                                ![w].pc = AfterAppend(platform),
                                ![w].last = last,
                                ![w].appended = (@ \/ samples # <<>>),
                                ![w].late = IF is_capturing THEN @ ELSE @ + 1]
    /\ UNCHANGED <<is_capturing, format_info>>
    /\ ctlFrame

\* capture_loop: audio_client.Stop() (a failure is only logged); back in the
\* closure CoUninitialize(), and the worker thread returns
WinStop(w) ==
    /\ platform = "windows"
    /\ worker[w].pc = "stop"
    /\ WorkerExit(w, worker[w].exit, CoUninitialize(worker[w].com), "stopped")
    /\ UNCHANGED is_capturing /\ noAppend
    /\ ctlFrame

\* Linux worker: build the Spec and store it in format_info
LinStoreFormat(w) ==
    /\ platform = "linux"
    /\ worker[w].pc = "store_format"
    /\ worker' = [worker EXCEPT ![w].pc = "connect", ![w].format = PulseSpec]
    /\ format_info' = [format_info EXCEPT ![w] = PulseSpec]
    /\ UNCHANGED is_capturing /\ noAppend
    /\ ctlFrame

\* Linux worker: Simple::new(); on failure clear the flag and return
LinConnect(w) ==
    /\ platform = "linux"
    /\ worker[w].pc = "connect"
    /\ \E ok \in BOOLEAN :
         IF ok
         THEN /\ worker' = [worker EXCEPT ![w].pc = "loop", ![w].com = @ + 1,
                                           ![w].client = "started"]
              /\ UNCHANGED <<is_capturing, format_info>>
         ELSE /\ is_capturing' = FALSE
              /\ WorkerExit(w, "init_failed", worker[w].com, worker[w].client)
    /\ noAppend
    /\ ctlFrame

\* Linux worker: while *is_capturing_clone.lock().unwrap()
LinLoopCheck(w) ==
    /\ platform = "linux"
    /\ worker[w].pc = "loop"
    /\ worker' = [worker EXCEPT
                    ![w].pc = IF is_capturing THEN "read" ELSE "drain",
                    ![w].exit = IF is_capturing THEN @ ELSE "flag_cleared",
                    ![w].late = 0]
    /\ UNCHANGED <<is_capturing, format_info>> /\ noAppend
    /\ ctlFrame

\* Linux worker: simple.read(&mut read_buffer); convert, append, sleep 1 ms
LinRead(w) ==
    /\ platform = "linux"
    /\ worker[w].pc = "read"
    /\ \/ /\ worker' = [worker EXCEPT ![w].pc = "drain", ![w].exit = "io_error"]
          /\ noAppend
       \/ /\ os_unread
          /\ LET buffer_size == ReadFrames * worker[w].format.channels * 2
                 f32_samples == convert_samples(BytesToI16(OsBytes(nreads - 1, buffer_size)))
             IN  /\ audio_buffer' = BufferExtend(audio_buffer, f32_samples)
                 /\ captured_as' = captured_as \o [k \in 1..Len(f32_samples) |-> worker[w].format]
                 /\ appended' = appended \o f32_samples
                 /\ fresh' = (fresh \/ f32_samples # <<>>)
                 /\ worker' = [worker EXCEPT
                                 ![w].pc = AfterAppend(platform),
                                 ![w].last = "samples",
                                 ![w].appended = (@ \/ f32_samples # <<>>),
                                 ![w].late = IF is_capturing THEN @ ELSE @ + 1]
          /\ os_unread' = FALSE
          /\ UNCHANGED nreads
    /\ UNCHANGED <<is_capturing, format_info>>
    /\ ctlFrame

\* Linux worker: simple.drain() (a failure is only logged); the closure
\* returns and drops the Simple connection
LinDrain(w) ==
    /\ platform = "linux"
    /\ worker[w].pc = "drain"
    /\ WorkerExit(w, worker[w].exit, DropSimple(worker[w].com), "stopped")
    /\ UNCHANGED is_capturing /\ noAppend
    /\ ctlFrame

\* The worker's stream is started and not yet stopped: between Start() and
\* Stop() of the audio client, or while the Simple connection exists
StreamRunning(w) ==
    worker[w].pc \in {"loop", "packet", "get_buffer", "stop", "read", "drain"}

\* The OS produces the next packet for the running stream
OsDeliver ==
    /\ \E w \in Workers : StreamRunning(w)
    /\ ~os_unread
    /\ nreads < MaxReads
    /\ os_unread' = TRUE
    /\ nreads' = nreads + 1
    /\ UNCHANGED <<is_capturing, audio_buffer, captured_as, format_info, worker, appended, fresh>>
    /\ ctlFrame

Next ==
    \/ \E c \in Clients : CallStart(c)
    \/ \E c \in Clients : StartBegin(c)
    \/ \E c \in Clients : StartSpawn(c)
    \/ \E c \in Clients : StartReturn(c)
    \/ \E c \in Clients : CallStop(c)
    \/ \E c \in Clients : StopBegin(c)
    \/ \E c \in Clients : StopJoin(c)
    \/ \E c \in Clients : CallGet(c)
    \/ \E c \in Clients : GetAudioBuffer(c)
    \/ \E w \in Workers : WinInitCom(w)
    \/ \E w \in Workers : WinGetDevice(w)
    \/ \E w \in Workers : WinActivate(w)
    \/ \E w \in Workers : WinInitializeClient(w)
    \/ \E w \in Workers : WinGetService(w)
    \/ \E w \in Workers : WinStart(w)
    \/ \E w \in Workers : WinLoopCheck(w)
    \/ \E w \in Workers : WinPacket(w)
    \/ \E w \in Workers : WinGetBuffer(w)
    \/ \E w \in Workers : WinStop(w)
    \/ \E w \in Workers : LinStoreFormat(w)
    \/ \E w \in Workers : LinConnect(w)
    \/ \E w \in Workers : LinLoopCheck(w)
    \/ \E w \in Workers : LinRead(w)
    \/ \E w \in Workers : LinDrain(w)
    \/ OsDeliver

Spec == Init /\ [][Next]_vars

\* Every step a worker thread can take
WorkerStep(w) ==
    \/ WinInitCom(w) \/ WinGetDevice(w) \/ WinActivate(w)
    \/ WinInitializeClient(w) \/ WinGetService(w) \/ WinStart(w)
    \/ WinLoopCheck(w) \/ WinPacket(w) \/ WinGetBuffer(w) \/ WinStop(w)
    \/ LinStoreFormat(w) \/ LinConnect(w) \/ LinLoopCheck(w)
    \/ LinRead(w) \/ LinDrain(w)

\* The blocking-pool thread of each worker keeps running (its OS calls
\* return), and the runtime resumes a stop_capture whose JoinHandle resolved
FairSpec ==
    /\ Spec
    /\ WF_vars(\E w \in Workers : WorkerStep(w))
    /\ WF_vars(\E c \in Clients : StopJoin(c))

TypeOK ==
    /\ is_capturing \in BOOLEAN
    /\ capture_handle \in {NoWorker} \cup Workers
    /\ Len(raceResults) <= Cardinality(Clients)

\* ------------------------------------------------------------------- claims
Returned(o, r) == last_return = Return(o, r)

AllIdle == \A c \in Clients : cpc[c] = "idle"

InReadCycle(w) == worker[w].pc \in {"loop", "packet", "get_buffer", "read"}

\* C1: of two start_capture calls issued concurrently on an idle controller,
\* exactly one returns Ok and the other is rejected as already capturing.
C1_ExactlyOneStartSucceeds ==
    (raceStart /\ Len(raceResults) = Cardinality(Clients))
        => {raceResults[i] : i \in DOMAIN raceResults} = {"Ok", "AlreadyCapturing"}

\* C2: the samples returned by successive get_audio_buffer calls, followed by
\* the samples still buffered, are exactly the samples the workers appended,
\* in order.
C2_DrainsPartitionAppends == delivered \o audio_buffer = appended

C2_Witness ==
    /\ delivered # <<>>
    /\ audio_buffer # <<>>
    /\ Len(appended) >= 2

\* C3: when the worker fails to acquire the device or to initialise the
\* format, the start_capture call that spawned it does not return Ok.
C3_InitFailureSurfaces ==
    \A w \in Workers : worker[w].started => worker[w].exit # "init_failed"

\* C4: once a mid-run I/O failure has ended the capture loop, is_capturing()
\* is false although stop_capture was never called.
C4_IoFailureClearsFlag ==
    \A w \in Workers :
        (worker[w].pc = "done" /\ worker[w].exit = "io_error" /\ capture_handle = w)
            => ~IsCapturing

\* C5: a worker whose initialisation fails before the read cycle (the audio
\* client's Start included) clears the active flag and exits having appended
\* nothing.
C5_InitFailureClearsFlag ==
    [][\A w \in Workers :
          (worker[w].pc # "done" /\ worker'[w].pc = "done"
             /\ worker'[w].exit \in {"init_failed", "start_failed"})
              => (~is_capturing' /\ ~worker[w].appended /\ appended' = appended)]_vars

\* C6: after start_capture returned Ok for a session whose worker negotiated
\* its format, get_format() is the format that worker negotiated.
C6_FormatIsNegotiated ==
    \A w \in Workers :
        (worker[w].started /\ capture_handle = w /\ InReadCycle(w))
            => GetFormat = format_info[w]

\* C7: when stop_capture has returned Ok on an active session, the worker has
\* terminated: is_capturing() is false and nothing is appended any more.
C7_StopJoinsWorker ==
    /\ [](sinceStop => (~IsCapturing
                          /\ \A w \in Workers : worker[w].pc \in {"unborn", "done"}))
    /\ [][(sinceStop /\ sinceStop') => appended' = appended]_vars

C7_Witness ==
    /\ sinceStop
    /\ AllIdle
    /\ Returned("stop", "Ok")
    /\ appended # <<>>
    /\ \E w \in Workers : worker[w].pc = "done" /\ worker[w].exit = "flag_cleared"

\* C8: stop_capture on an inactive controller returns Ok and changes neither
\* the flag, the buffer, the format nor the worker handle.
C8_StopIdempotent ==
    [][\A c \in Clients :
          (cpc[c] = "stop_check" /\ cpc'[c] # "stop_check" /\ ~is_capturing)
              => /\ cpc'[c] = "idle"
                 /\ last_return' = Return("stop", "Ok")
                 /\ UNCHANGED <<is_capturing, audio_buffer, format, capture_handle>>]_vars

\* The call that returned last is a stop_capture that left a worker handle
\* behind: it found the controller inactive (the joining path takes the handle)
C8_Witness ==
    /\ AllIdle
    /\ Returned("stop", "Ok")
    /\ ~is_capturing
    /\ capture_handle # NoWorker
    /\ audio_buffer # <<>>

\* C9: get_audio_buffer returns None when the buffer is empty and otherwise
\* Some holding every accumulated sample, never Some of an empty list; with
\* no append since the previous call it returns None.
C9_DrainNoneOrAll ==
    [][\A c \in Clients :
          (cpc[c] = "get_check" /\ cpc'[c] = "idle")
              => /\ IF audio_buffer = <<>>
                    THEN /\ last_return' = Return("get", "None")
                         /\ delivered' = delivered
                    ELSE /\ last_return' = Return("get", "Some")
                         /\ delivered' = delivered \o audio_buffer
                 /\ audio_buffer' = <<>>
                 /\ ~fresh => last_return' = Return("get", "None")]_vars

C9_Witness ==
    /\ AllIdle
    /\ Returned("get", "None")
    /\ delivered # <<>>
    /\ audio_buffer = <<>>

\* C10: a start_capture that returns an error (the already-capturing
\* rejection) appends nothing, spawns no worker and leaves the flag, the
\* buffer, the format and the worker handle as they were.
C10_FailedStartChangesNothing ==
    [][\A c \in Clients :
          (/\ cpc[c] \in {"start_wait", "start_spawn", "start_sleep"}
           /\ cpc'[c] = "idle"
           /\ last_return'.res # "Ok")
              => /\ cpc[c] = "start_wait"
                 /\ last_return' = Return("start", "AlreadyCapturing")
                 /\ UNCHANGED <<is_capturing, audio_buffer, format, capture_handle,
                                worker, appended, format_info>>]_vars

C10_Witness ==
    /\ Returned("start", "AlreadyCapturing")
    /\ is_capturing
    /\ capture_handle # NoWorker
    /\ InReadCycle(capture_handle)
    /\ audio_buffer # <<>>

\* A worker thread that can still reach an append to the buffer
CanAppend(w) == worker[w].pc \notin {"unborn", "done", "stop", "drain"}

\* C11: at most one capture worker is in (or on its way into) its read/append
\* cycle: the buffer has a single writer.
C11_SingleWriter == Cardinality({w \in Workers : CanAppend(w)}) <= 1

\* A later worker is in its read cycle after an earlier worker appended
C11_Witness ==
    \E w \in Workers :
        /\ InReadCycle(w)
        /\ ~worker[w].appended
        /\ appended # <<>>

\* C17: when the worker leaves its loop because the active flag was cleared,
\* it returns only after every packet the OS handle holds has been read: no
\* unread packet is left behind at the release of the handle.
C17_DrainsBeforeRelease ==
    [][\A w \in Workers :
          (/\ worker[w].pc \in {"stop", "drain"}
           /\ worker'[w].pc = "done"
           /\ worker'[w].exit = "flag_cleared")
              => ~os_unread]_vars

\* The worker thread ran and has returned
HasReturned(w) ==
    /\ worker[w].pc = "done"
    /\ worker[w].exit \in {"init_failed", "start_failed", "io_error", "flag_cleared"}

\* C18: a worker that has returned leaves no initialisation of the OS
\* subsystem open and has released none it did not make (exactly one release
\* per successful initialisation), and it does not leave a started audio
\* client running.
C18_SubsystemReleasedOnce ==
    \A w \in Workers :
        HasReturned(w) => (worker[w].com = 0 /\ worker[w].client # "started")

\* A worker that started its client has returned after a mid-run error
C18_Witness ==
    \E w \in Workers :
        /\ HasReturned(w)
        /\ worker[w].exit = "io_error"
        /\ worker[w].client = "stopped"

\* C20: get_format() changes only inside start_capture: a step that changes
\* it is the return of a start_capture call; appends, drains and stop_capture
\* leave it as it is.
C20_FormatFixedPerSession ==
    [][GetFormat' # GetFormat
          => \E c \in Clients :
                 /\ cpc[c] = "start_sleep"
                 /\ cpc'[c] = "idle"
                 /\ last_return' = Return("start", "Ok")]_vars

\* A session whose start set a detected format was appended to, drained
\* and stopped
C20_Witness ==
    /\ GetFormat # DefaultFormat
    /\ sinceStop
    /\ delivered # <<>>
    /\ AllIdle

\* ------------------------------------------------- sample converter calls
controllerVars == <<ctl_owner, is_capturing, audio_buffer, captured_as, format, capture_handle,
                    format_info, worker, nreads, os_unread, cpc, last_return,
                    appended, delivered, raceStart, raceResults, sinceStop, fresh>>

\* Byte values of the runs: 0x00, 0x40, 0x80, 0xC0
ByteValues == {0, 64, 128, 192}

ByteRuns == UNION {[1..n -> ByteValues] : n \in 0..MaxLen}

\* wBitsPerSample of the format handed to the converter
BitDepths == {8, 16, 24, 32}

\* The runs of a second call of the converter
NextRuns == {SubSeq(<<0, 64, 0, 192>>, 1, n) : n \in 0..4}

\* The platform's conversion of one byte run: windows.rs capture_loop calls
\* convert_samples_to_f32, linux.rs pairs the bytes and calls convert_samples
Converter(bits, data) ==
    IF platform = "windows"
    THEN convert_samples_to_f32(data, bits)
    ELSE convert_samples(BytesToI16(data))

\* Bytes in one sample of the encoding
SampleWidth(bits) == IF platform = "windows" THEN bits \div 8 ELSE 2

InitConv ==
    /\ platform \in Platforms
    /\ ControllerNew
    /\ lister = NoLister
    /\ wav = NoWav
    /\ lk = NoLocks
    /\ chunker = NoChunks
    /\ stream = NoStreaming
    /\ svc = NoServices
    /\ tx = NoTranscription
    /\ mtg = NoMeetings
    /\ sel = NoSel
    /\ \E bits \in BitDepths, data \in ByteRuns :
         /\ platform = "linux" => bits = 16
         /\ conv = [NoConv EXCEPT !.bits = bits, !.data = data]

\* The converter is called on the run
ConvertFirst ==
    /\ conv.calls = 0
    /\ conv' = [conv EXCEPT !.out = Converter(conv.bits, conv.data), !.calls = 1]
    /\ UNCHANGED <<platform, chunker, stream, svc, tx, mtg, sel, lister, wav, lk, controllerVars>>

\* The converter is called again, on another run
ConvertNext ==
    /\ conv.calls = 1
    /\ \E data \in NextRuns :
         conv' = [conv EXCEPT !.data = data,
                              !.out = Converter(conv.bits, data),
                              !.calls = 2,
                              !.dropped = Len(conv.data) % SampleWidth(conv.bits)]
    /\ UNCHANGED <<platform, chunker, stream, svc, tx, mtg, sel, lister, wav, lk, controllerVars>>

NextConv == ConvertFirst \/ ConvertNext

SpecConv == InitConv /\ [][NextConv]_vars

Converted == conv.calls >= 1

IsPcm16 == platform = "linux" \/ conv.bits = 16

IsPcm24 == platform = "windows" /\ conv.bits = 24

\* C13: every sample converted from 16-bit or 24-bit PCM lies in [-1, 1]: the
\* numerator never exceeds the divisor in magnitude.
C13_PcmSamplesInRange ==
    (Converted /\ (IsPcm16 \/ IsPcm24))
        => \A k \in DOMAIN conv.out :
               /\ conv.out[k].den \in {32768, 8388608}
               /\ (0 - conv.out[k].den) <= conv.out[k].num
               /\ conv.out[k].num <= conv.out[k].den

\* The 24-bit two's-complement value of three little-endian bytes
Value24(b0, b1, b2) ==
    LET u == b0 + 256 * b1 + 65536 * b2
    IN  IF u >= 8388608 THEN u - 16777216 ELSE u

\* C14: PCM24LE conversion gives, for every 3-byte group, the group's 24-bit
\* two's-complement value divided by 8388608.
C14_Pcm24Value ==
    (Converted /\ IsPcm24)
        => /\ Len(conv.out) = Len(conv.data) \div 3
           /\ \A k \in DOMAIN conv.out :
                  conv.out[k] = Sample(Value24(conv.data[3 * k - 2], conv.data[3 * k - 1],
                                               conv.data[3 * k]), 8388608)

\* The 16-bit two's-complement value of two little-endian bytes
Value16(b0, b1) ==
    LET u == b0 + 256 * b1
    IN  IF u >= 32768 THEN u - 65536 ELSE u

\* C15: PCM16LE conversion gives, for every 2-byte group in input order, the
\* group's 16-bit two's-complement value divided by 32768; bytes 00 00, 00 40,
\* 00 C0 give 0.0, 0.5, -0.5.
C15_Pcm16Value ==
    (Converted /\ IsPcm16)
        => /\ Len(conv.out) = Len(conv.data) \div 2
           /\ \A k \in DOMAIN conv.out :
                  conv.out[k] = Sample(Value16(conv.data[2 * k - 1], conv.data[2 * k]), 32768)
           /\ conv.data = <<0, 0, 0, 64, 0, 192>>
                  => conv.out = <<Sample(0, 32768), Sample(16384, 32768),
                                  Sample(0 - 16384, 32768)>>

C15_Witness ==
    /\ Converted
    /\ IsPcm16
    /\ conv.data = <<0, 0, 0, 64, 0, 192>>
    /\ Len(conv.out) = 3

\* C16: a run of n bytes in an encoding of w bytes per sample converts to
\* floor(n / w) samples, those of its first w * floor(n / w) bytes; the
\* trailing bytes are discarded, also for the call that follows.
C16_RemainderDiscarded ==
    (Converted /\ (IsPcm16 \/ IsPcm24 \/ conv.bits = 32))
        => LET w == SampleWidth(conv.bits)
               whole == w * (Len(conv.data) \div w)
           IN  /\ Len(conv.out) = Len(conv.data) \div w
               /\ conv.out = Converter(conv.bits, SubSeq(conv.data, 1, whole))

\* A second call, after a call that discarded bytes, discards bytes again
C16_Witness ==
    /\ conv.calls = 2
    /\ conv.dropped > 0
    /\ Len(conv.data) % SampleWidth(conv.bits) # 0
    /\ conv.out # <<>>

\* ---------------------------------------------------------- device listing
ListFunctions == {"list_devices", "list_speaker_devices", "list_microphone_devices"}

\* One line of the result: "N: name (kind)"
Device(n, kind) == [index |-> n, kind |-> kind]

listFrame == UNCHANGED <<platform, chunker, stream, svc, tx, mtg, sel, conv, wav, lk, controllerVars>>

\* The closure returns Err(..) from where it stands
ListErr(l) == [l EXCEPT !.pc = "returned", !.res = "Err"]

\* The entries pushed for the items 0..count-1 of a collection, the items in
\* failed skipped; item i is numbered base + i
Items(count, failed, base, kind) ==
    LET F[i \in 0..count] ==
          IF i = 0 THEN <<>>
          ELSE IF (i - 1) \in failed THEN F[i - 1]
          ELSE Append(F[i - 1], Device(base + i - 1, kind))
    IN  F[count]

\* A caller invokes one of the three listing functions (spawn_blocking)
ListCall ==
    /\ lister.pc \in {"idle", "returned"}
    /\ \E f \in ListFunctions :
         lister' = [NoLister EXCEPT !.fn = f, !.res = "pending",
                                    !.pc = IF platform = "windows" THEN "init_com"
                                           ELSE "mainloop"]
    /\ listFrame

\* windows.rs: Self::init_com()
WinListInitCom ==
    /\ platform = "windows"
    /\ lister.pc = "init_com"
    /\ \E ok \in BOOLEAN :
         lister' = IF ok THEN [lister EXCEPT !.pc = "enumerator", !.com = @ + 1]
                   ELSE ListErr(lister)
    /\ listFrame

\* windows.rs: CoCreateInstance(MMDeviceEnumerator); on failure CoUninitialize
WinListEnumerator ==
    /\ platform = "windows"
    /\ lister.pc = "enumerator"
    /\ \E ok \in BOOLEAN :
         lister' = IF ok
                   THEN [lister EXCEPT !.pc = IF lister.fn = "list_microphone_devices"
                                              THEN "microphones" ELSE "default"]
                   ELSE ListErr([lister EXCEPT !.com = CoUninitialize(@)])
    /\ listFrame

\* windows.rs: get_default_device(); entry 0 is pushed whether it fails or not
WinListDefault ==
    /\ platform = "windows"
    /\ lister.pc = "default"
    /\ \E ok \in BOOLEAN :
         lister' = [lister EXCEPT
                      !.devices = Append(@, Device(0, IF ok THEN "default speaker"
                                                      ELSE "placeholder")),
                      !.pc = "speakers"]
    /\ listFrame

\* windows.rs: EnumAudioEndpoints(eRender), GetCount, Item(i) for each i
WinListSpeakers ==
    /\ platform = "windows"
    /\ lister.pc = "speakers"
    /\ \/ lister' = ListErr([lister EXCEPT !.com = CoUninitialize(@)])
       \/ \E speaker_count \in 0..MaxEndpoints :
            \E failed \in SUBSET (0..(speaker_count - 1)) :
               lister' = [lister EXCEPT
                            !.devices = @ \o Items(speaker_count, failed, 1, "speaker"),
                            !.speakers = speaker_count,
                            !.pc = IF lister.fn = "list_devices"
                                   THEN "microphones" ELSE "finish"]
    /\ listFrame

\* windows.rs: EnumAudioEndpoints(eCapture), GetCount, Item(i) for each i
WinListMicrophones ==
    /\ platform = "windows"
    /\ lister.pc = "microphones"
    /\ \/ lister' = ListErr([lister EXCEPT !.com = CoUninitialize(@)])
       \/ \E mic_count \in 0..MaxEndpoints :
            \E failed \in SUBSET (0..(mic_count - 1)) :
               LET mic_offset == IF lister.fn = "list_devices"
                                 THEN lister.speakers + 1 ELSE 0
               IN  lister' = [lister EXCEPT
                                !.devices = @ \o Items(mic_count, failed, mic_offset,
                                                       "microphone"),
                                !.pc = "finish"]
    /\ listFrame

\* windows.rs: CoUninitialize(); Ok(devices)
WinListFinish ==
    /\ platform = "windows"
    /\ lister.pc = "finish"
    /\ lister' = [lister EXCEPT !.com = CoUninitialize(@), !.pc = "returned", !.res = "Ok"]
    /\ listFrame

\* linux.rs: Mainloop::new()
LinListMainloop ==
    /\ platform = "linux"
    /\ lister.pc = "mainloop"
    /\ \E ok \in BOOLEAN :
         lister' = IF ok THEN [lister EXCEPT !.pc = "context", !.mainloop = "created"]
                   ELSE ListErr(lister)
    /\ listFrame

\* linux.rs: Context::new(&mainloop, ..)
LinListContext ==
    /\ platform = "linux"
    /\ lister.pc = "context"
    /\ \E ok \in BOOLEAN :
         lister' = IF ok THEN [lister EXCEPT !.pc = "connect", !.context = "created"]
                   ELSE ListErr(lister)
    /\ listFrame

\* linux.rs: context.connect(None, NOFLAGS, None)
LinListConnect ==
    /\ platform = "linux"
    /\ lister.pc = "connect"
    /\ \E ok \in BOOLEAN :
         lister' = IF ok THEN [lister EXCEPT !.pc = "start", !.context = "connecting"]
                   ELSE ListErr(lister)
    /\ listFrame

\* linux.rs: mainloop.lock(); mainloop.start() with `?`
LinListStart ==
    /\ platform = "linux"
    /\ lister.pc = "start"
    /\ \E ok \in BOOLEAN :
         lister' = IF ok
                   THEN [lister EXCEPT !.lock = @ + 1, !.mainloop = "running",
                                       !.pc = "wait_ready"]
                   ELSE ListErr([lister EXCEPT !.lock = @ + 1])
    /\ listFrame

\* linux.rs: the loop on context.get_state(): Ready breaks; Failed or
\* Terminated unlocks, stops the mainloop and returns Err; any other state
\* unlocks, sleeps 10 ms and locks again (the loop goes round)
LinListWaitReady ==
    /\ platform = "linux"
    /\ lister.pc = "wait_ready"
    /\ \E state \in {"Ready", "Failed"} :
         lister' = IF state = "Ready"
                   THEN [lister EXCEPT !.context = "ready",
                                       !.pc = IF lister.fn = "list_microphone_devices"
                                              THEN "sources" ELSE "default"]
                   ELSE ListErr([lister EXCEPT !.lock = @ - 1, !.mainloop = "stopped",
                                               !.context = "failed"])
    /\ listFrame

\* linux.rs: push "0: Default Monitor (..)"
LinListDefault ==
    /\ platform = "linux"
    /\ lister.pc = "default"
    /\ lister' = [lister EXCEPT !.devices = Append(@, Device(0, "default speaker")),
                                !.pc = "sinks"]
    /\ listFrame

\* linux.rs: get_sink_info_list; the callback pushes one entry per sink from
\* index 1 until End or Error; the caller unlocks, waits for done, locks
LinListSinks ==
    /\ platform = "linux"
    /\ lister.pc = "sinks"
    /\ \E sinks \in 0..MaxEndpoints :
         lister' = [lister EXCEPT
                      !.devices = @ \o Items(sinks, {}, 1, "speaker"),
                      !.speakers = sinks,
                      !.pc = IF lister.fn = "list_devices" THEN "sources" ELSE "finish"]
    /\ listFrame

\* linux.rs: get_source_info_list; one entry per source that is not a monitor,
\* numbered on from the sinks (list_devices) or from 0
LinListSources ==
    /\ platform = "linux"
    /\ lister.pc = "sources"
    /\ \E sources \in 0..MaxEndpoints :
         LET source_index == IF lister.fn = "list_devices"
                             THEN lister.speakers + 1 ELSE 0
         IN  lister' = [lister EXCEPT
                          !.devices = @ \o Items(sources, {}, source_index, "microphone"),
                          !.pc = "finish"]
    /\ listFrame

\* linux.rs: mainloop.unlock(); mainloop.stop(); context.disconnect(); Ok(result)
LinListFinish ==
    /\ platform = "linux"
    /\ lister.pc = "finish"
    /\ lister' = [lister EXCEPT !.lock = @ - 1, !.mainloop = "stopped",
                                !.context = "disconnected",
                                !.pc = "returned", !.res = "Ok"]
    /\ listFrame

NextList ==
    \/ ListCall
    \/ WinListInitCom
    \/ WinListEnumerator
    \/ WinListDefault
    \/ WinListSpeakers
    \/ WinListMicrophones
    \/ WinListFinish
    \/ LinListMainloop
    \/ LinListContext
    \/ LinListConnect
    \/ LinListStart
    \/ LinListWaitReady
    \/ LinListDefault
    \/ LinListSinks
    \/ LinListSources
    \/ LinListFinish

SpecList == Init /\ [][NextList]_vars

ListReturned == lister.pc = "returned"

\* C12: list_devices() always returns a list, never an error, and the list
\* is never empty: its first entry is the index-0 default device.
C12_ListNeverEmpty ==
    (ListReturned /\ lister.fn = "list_devices")
        => /\ lister.res = "Ok"
           /\ lister.devices # <<>>
           /\ lister.devices[1].index = 0

\* C19: when a listing call has returned, by whatever path, it has closed
\* every COM initialisation it made and none more, it no longer holds the
\* mainloop lock, the mainloop it started is stopped and the context it
\* connected is disconnected.
C19_ListReleasesAll ==
    ListReturned
        => /\ lister.com = 0
           /\ lister.lock = 0
           /\ lister.mainloop # "running"
           /\ lister.context \notin {"connecting", "ready"}

\* The worker is in its shutdown steps or has returned
ShuttingDown(w) == worker[w].pc \in {"stop", "drain", "done"}

\* C23: after a mid-run I/O error the capture loop attempts no further read:
\* from the failing packet-size query, GetBuffer or read on, the worker is in
\* its shutdown steps, its next step is its return, and it does return (no
\* worker stays in its shutdown steps for ever).
C23_IoErrorEndsLoop ==
    /\ [](\A w \in Workers : worker[w].exit = "io_error" => ShuttingDown(w))
    /\ [][\A w \in Workers :
            (worker[w].exit = "io_error" /\ worker[w].pc # "done"
               /\ worker'[w].pc # worker[w].pc)
                => (worker'[w].pc = "done" /\ UNCHANGED <<nreads, os_unread, appended>>)]_vars
    /\ []<>(\A w \in Workers : worker[w].exit = "io_error" => worker[w].pc = "done")

\* A worker that had appended samples returned after an I/O error, and its
\* last packet was left unread
C23_Witness ==
    \E w \in Workers :
        /\ worker[w].pc = "done"
        /\ worker[w].exit = "io_error"
        /\ appended # <<>>
        /\ os_unread

\* The flag is cleared and no thread is left to react to it: every worker
\* has returned and no stop_capture waits for one
Settled ==
    /\ \A w \in Workers : worker[w].pc \in {"unborn", "done"}
    /\ \A c \in Clients : cpc[c] # "stop_join"

\* C28: after the active flag is cleared the worker completes at most one
\* further read-and-append before it finds the flag cleared and leaves the
\* loop; with the worker thread scheduled and its OS calls returning, it
\* then returns, and a stop_capture waiting for it returns (again and again
\* the flag is set, or everything has settled).
C28_AtMostOneLateRead ==
    /\ [](\A w \in Workers : worker[w].late <= 1)
    /\ [][\A w \in Workers :
            (worker[w].pc = "loop" /\ ~is_capturing /\ worker'[w].pc # "loop")
                => worker'[w].pc \in {"stop", "drain"}]_vars
    /\ []<>(is_capturing \/ Settled)

\* stop_capture cleared the flag while the worker was in a read; the worker
\* has appended that read and is back at the loop condition, stop_capture
\* is waiting for it
C28_Witness ==
    \E w \in Workers, c \in Clients :
        /\ worker[w].late = 1
        /\ worker[w].pc = "loop"
        /\ ~is_capturing
        /\ cpc[c] = "stop_join"
        /\ capture_handle = w

\* C29: a start_capture that finds is_capturing() false is not rejected as
\* already capturing (it sets the flag and goes on to spawn the worker), one
\* that finds it true is rejected and changes nothing; after a stop_capture
\* that returned Ok the flag is false until the next start sets it, so the
\* controller can be started again.
C29_StartGuardFollowsFlag ==
    /\ [][\A c \in Clients :
            (cpc[c] = "start_wait" /\ cpc'[c] # "start_wait")
                => IF IsCapturing
                   THEN /\ cpc'[c] = "idle"
                        /\ last_return' = Return("start", "AlreadyCapturing")
                        /\ UNCHANGED <<is_capturing, capture_handle, worker>>
                   ELSE /\ cpc'[c] = "start_spawn"
                        /\ is_capturing'
                        /\ UNCHANGED last_return]_vars
    /\ []((/\ Returned("stop", "Ok")
           /\ \A c \in Clients : cpc[c] \notin {"start_spawn", "start_sleep"})
              => ~IsCapturing)

\* A second session runs: its start_capture returned Ok and its worker is in
\* the read cycle, after an earlier session appended samples and was stopped
C29_Witness ==
    \E w \in Workers :
        /\ Returned("start", "Ok")
        /\ IsCapturing
        /\ capture_handle = w
        /\ worker[w].started
        /\ InReadCycle(w)
        /\ ~worker[w].appended
        /\ appended # <<>>

\* C30: stop_capture leaves the sample buffer untouched, and the first
\* get_audio_buffer after a stop_capture that ended a session returns every
\* sample appended and not yet drained: once it has returned, every sample
\* ever appended has been delivered.
C30_StopKeepsBuffer ==
    /\ [][\A c \in Clients :
            (cpc[c] \in {"stop_check", "stop_join"} /\ cpc'[c] # cpc[c])
                => audio_buffer' = audio_buffer]_vars
    /\ [][\A c \in Clients :
            (sinceStop /\ cpc[c] = "get_check" /\ cpc'[c] = "idle")
                => /\ delivered' = delivered \o audio_buffer
                   /\ delivered' = appended
                   /\ audio_buffer' = <<>>]_vars

\* The first get_audio_buffer after the stop of a session has returned the
\* samples the stop left in the buffer
C30_Witness ==
    /\ sinceStop
    /\ AllIdle
    /\ Returned("get", "Some")
    /\ delivered = appended
    /\ audio_buffer = <<>>

\* C27: every AudioBuffer returned by get_audio_buffer carries the format
\* under which all of its samples were captured: each returned sample was
\* appended by a worker whose format is the returned tag, and the tag is not
\* the placeholder format.
C27_BufferTaggedWithCaptureFormat ==
    [][\A c \in Clients :
          (cpc[c] = "get_check" /\ cpc'[c] = "idle" /\ audio_buffer # <<>>)
              => /\ \A i \in DOMAIN captured_as : captured_as[i] = format
                 /\ format # DefaultFormat]_vars

\* --------------------------------------------------- WAV file writer calls
MaxSamples == 2        \* samples in one AudioBuffer handed to save_wav_file

\* f32 samples handed to the writer, as exact quotients: -1.5, -1, -1/3, 0,
\* 1/3, 1/2, 1, 1.5
WavSamples ==
    {Sample(-3, 2), Sample(-1, 1), Sample(-1, 3), Sample(0, 1),
     Sample(1, 3), Sample(1, 2), Sample(1, 1), Sample(3, 2)}

\* Formats an AudioBuffer carries: the placeholder, the PulseAudio spec and
\* 24-bit and 32-bit mix formats
WavFormats ==
    {DefaultFormat, PulseSpec, AudioFormat(48000, 2, 24), AudioFormat(48000, 2, 32)}

\* sample.max(-1.0).min(1.0)
Clamp(s) ==
    CASE s.num > s.den -> Sample(s.den, s.den)
      [] s.num < 0 - s.den -> Sample(0 - s.den, s.den)
      [] OTHER -> s

\* `x as i16` of an f32: truncation toward zero, saturating at the i16 range
AsI16(num, den) ==
    LET t == IF num >= 0 THEN num \div den ELSE 0 - ((0 - num) \div den)
    IN  CASE t > 32767 -> 32767
          [] t < -32768 -> -32768
          [] OTHER -> t

\* (clamped * 32768.0) as i16
F32ToI16(s) == AsI16(Clamp(s).num * 32768, Clamp(s).den)

\* An AudioBuffer is handed to save_wav_file
InitWav ==
    /\ platform \in Platforms
    /\ ControllerNew
    /\ conv = NoConv
    /\ lister = NoLister
    /\ lk = NoLocks
    /\ chunker = NoChunks
    /\ stream = NoStreaming
    /\ svc = NoServices
    /\ tx = NoTranscription
    /\ mtg = NoMeetings
    /\ sel = NoSel
    /\ \E fmt \in WavFormats,
          samples \in UNION {[1..n -> WavSamples] : n \in 0..MaxSamples} :
         wav = [NoWav EXCEPT !.samples = samples, !.format = fmt]

\* save_wav_file: the WavSpec is built from the buffer's format,
\* WavWriter::create, one write_sample per sample, finalize
save_wav_file ==
    /\ wav.pc = "idle"
    /\ \E r \in {"create_failed", "finalize_failed", "ok"} :
         LET spec == WavSpec(wav.format.channels, wav.format.sample_rate,
                             wav.format.bits_per_sample, "Int")
             written == [k \in 1..Len(wav.samples) |-> F32ToI16(wav.samples[k])]
         IN  wav' = [wav EXCEPT
                       !.pc = "returned",
                       !.spec = IF r = "create_failed" THEN @ ELSE spec,
                       !.written = IF r = "create_failed" THEN @ ELSE written,
                       !.res = IF r = "ok" THEN "Ok" ELSE "Err"]
    /\ UNCHANGED <<platform, chunker, stream, svc, tx, mtg, sel, conv, lister, lk, controllerVars>>

NextWav == save_wav_file

SpecWav == InitWav /\ [][NextWav]_vars

\* C26: save_wav_file writes a 16-bit integer PCM container for every
\* AudioBuffer: the header's bit depth is 16, its channel count and sample
\* rate are those of the buffer's format whatever bits_per_sample the format
\* carries, and the values written are the 16-bit conversions of the samples
\* (in the i16 range, within one step of sample * 32768).
C26_WavIsPcm16 ==
    wav.res = "Ok"
        => /\ wav.spec.bits_per_sample = 16
           /\ wav.spec.sample_format = "Int"
           /\ wav.spec.channels = wav.format.channels
           /\ wav.spec.sample_rate = wav.format.sample_rate
           /\ Len(wav.written) = Len(wav.samples)
           /\ \A k \in DOMAIN wav.written :
                /\ wav.written[k] \in -32768..32767
                /\ (wav.samples[k].num < wav.samples[k].den
                      /\ wav.samples[k].num >= 0 - wav.samples[k].den)
                     => LET d == wav.written[k] * wav.samples[k].den
                                   - wav.samples[k].num * 32768
                        IN  d < wav.samples[k].den /\ 0 - d < wav.samples[k].den

\* The converter has an arm for the format's bit depth
Recognised(fmt) == fmt.bits_per_sample \in {16, 24, 32}

\* C24: a chunk whose bit depth the converter does not recognise adds no
\* sample to the buffer and does not end the capture loop: the worker goes
\* back to the loop condition with no exit cause and the flag untouched, and
\* with the flag set it goes on to the next packet.
C24_UnknownEncodingSkipped ==
    /\ [][\A w \in Workers :
            (/\ worker[w].pc = "get_buffer"
             /\ worker'[w].pc # "get_buffer"
             /\ ~Recognised(worker[w].format)
             /\ worker'[w].exit # "io_error")
                => /\ appended' = appended
                   /\ audio_buffer' = audio_buffer
                   /\ worker'[w].pc = "loop"
                   /\ worker'[w].exit = "none"
                   /\ UNCHANGED is_capturing]_vars
    /\ [][\A w \in Workers :
            (/\ worker[w].pc = "loop"
             /\ worker[w].last = "unknown"
             /\ worker'[w].pc # "loop"
             /\ is_capturing)
                => worker'[w].pc = "packet"]_vars

\* After a chunk of unrecognised encoding the worker has reached the next
\* packet, the session still active and the buffer without any sample
C24_Witness ==
    \E w \in Workers :
        /\ worker[w].last = "unknown"
        /\ worker[w].pc = "get_buffer"
        /\ ~Recognised(worker[w].format)
        /\ is_capturing
        /\ nreads = 2
        /\ appended = <<>>

\* C25: a packet flagged silent appends no sample, yet its buffer is
\* released and the loop goes back to its condition, as after any other
\* packet.
C25_SilentPacketSkipped ==
    [][\A w \in Workers :
          (/\ worker[w].pc = "get_buffer"
           /\ worker'[w].pc # "get_buffer"
           /\ worker'[w].exit # "io_error")
              => /\ ~os_unread'
                 /\ worker'[w].pc = "loop"
                 /\ worker'[w].last = "silent"
                      => (appended' = appended /\ audio_buffer' = audio_buffer)]_vars

\* After a packet with samples the worker got a silent packet, appended
\* nothing of it, released it and is at the next packet query
C25_Witness ==
    \E w \in Workers :
        /\ worker[w].last = "silent"
        /\ worker[w].pc = "packet"
        /\ worker[w].appended
        /\ Len(appended) = 2
        /\ nreads = 2
        /\ ~os_unread

\* ------------------------------------------- the flag lock and buffer lock
\* The calls and the worker seen one lock operation at a time: taking a
\* std::sync::Mutex, the statements under its guard (up to the drop of the
\* guard) and each OS call or wait are steps of their own. The callers are
\* serialised by AppState.audio_capture, so one caller thread stands for them.
lkFrame == UNCHANGED <<platform, chunker, stream, svc, tx, mtg, sel, conv, lister, wav, controllerVars>>

LkAt(t, pc) == lk.pc[t] = pc

LkGoto(l, t, pc) == [l EXCEPT !.pc[t] = pc]

\* Mutex::lock(): blocks until the mutex is free, then t holds it
LockFlag(t, next) ==
    /\ lk.flag_lock = "free"
    /\ lk' = LkGoto([lk EXCEPT !.flag_lock = t], t, next)
    /\ lkFrame

LockBuffer(t, next) ==
    /\ lk.buffer_lock = "free"
    /\ lk' = LkGoto([lk EXCEPT !.buffer_lock = t], t, next)
    /\ lkFrame

\* mutant of FlagGuardDropped: the guard of the loop condition lives through
\* the loop body
FlagGuardKept(t) == t

\* The temporary guard of `*is_capturing.lock().unwrap()` and the guard of
\* the first block of start_capture / stop_capture are dropped where the
\* expression or the block ends: the flag lock is free again
FlagGuardDropped(t) == "free"

\* mutant of BufferGuardDropped: the guard outlives the block it was taken in
BufferGuardKept(t) == t

\* The buffer guard is dropped at the end of the block that took it (the if
\* block / match arm of the worker, the body of get_audio_buffer)
BufferGuardDropped(t) == "free"

\* The caller enters one of the methods of the port
LkCall ==
    /\ LkAt("caller", "idle")
    /\ \E m \in {"start_lock", "stop_lock", "get_lock", "is_capturing_lock"} :
         lk' = LkGoto(lk, "caller", m)
    /\ lkFrame

\* start_capture: self.is_capturing.lock()
LkStartLock == LkAt("caller", "start_lock") /\ LockFlag("caller", "start_test")

\* start_capture: under the guard, reject if set, else set; end of the block
LkStartTest ==
    /\ LkAt("caller", "start_test")
    /\ lk' = [lk EXCEPT !.pc["caller"] = IF lk.flag THEN "idle" ELSE "start_spawn",
                        !.flag = TRUE,
                        !.flag_lock = FlagGuardDropped("caller")]
    /\ lkFrame

\* start_capture: spawn_blocking, capture_handle = Some(handle)
LkStartSpawn ==
    /\ LkAt("caller", "start_spawn")
    /\ lk.pc["worker"] \in {"idle", "done"}
    /\ lk' = [lk EXCEPT !.pc["caller"] = "start_sleep", !.pc["worker"] = "init",
                        !.handle = TRUE]
    /\ lkFrame

\* start_capture: tokio::time::sleep(100 ms).await, copy format_info, Ok
LkStartSleep ==
    /\ LkAt("caller", "start_sleep")
    /\ lk' = LkGoto(lk, "caller", "idle")
    /\ lkFrame

\* stop_capture: self.is_capturing.lock()
LkStopLock == LkAt("caller", "stop_lock") /\ LockFlag("caller", "stop_test")

\* stop_capture: under the guard, return Ok if clear, else clear; end of block
LkStopTest ==
    /\ LkAt("caller", "stop_test")
    /\ lk' = [lk EXCEPT !.pc["caller"] = IF lk.flag THEN "stop_join" ELSE "idle",
                        !.flag = FALSE,
                        !.flag_lock = FlagGuardDropped("caller")]
    /\ lkFrame

\* stop_capture: capture_handle.take(), handle.await
LkStopJoin ==
    /\ LkAt("caller", "stop_join")
    /\ lk.handle => LkAt("worker", "done")
    /\ lk' = [lk EXCEPT !.pc["caller"] = "idle", !.handle = FALSE]
    /\ lkFrame

\* get_audio_buffer: self.audio_buffer.lock()
LkGetLock == LkAt("caller", "get_lock") /\ LockBuffer("caller", "get_drain")

\* get_audio_buffer: under the guard, None if empty, else drain(..); return
LkGetDrain ==
    /\ LkAt("caller", "get_drain")
    /\ lk' = [lk EXCEPT !.pc["caller"] = "idle", !.chunks = 0,
                        !.buffer_lock = BufferGuardDropped("caller")]
    /\ lkFrame

\* is_capturing(): self.is_capturing.lock()
LkIsCapturingLock ==
    LkAt("caller", "is_capturing_lock") /\ LockFlag("caller", "is_capturing_read")

\* is_capturing(): read the flag through the temporary guard
LkIsCapturingRead ==
    /\ LkAt("caller", "is_capturing_read")
    /\ lk' = [lk EXCEPT !.pc["caller"] = "idle",
                        !.flag_lock = FlagGuardDropped("caller")]
    /\ lkFrame

\* worker: the initialisation calls (init_com .. GetService / Simple::new)
LkInit ==
    /\ LkAt("worker", "init")
    /\ \E ok \in BOOLEAN :
         lk' = LkGoto(lk, "worker",
                      CASE ~ok -> "fail_lock"
                        [] platform = "windows" -> "client_start"
                        [] OTHER -> "loop_lock")
    /\ lkFrame

\* worker, failed initialisation: is_capturing_clone.lock()
LkFailLock == LkAt("worker", "fail_lock") /\ LockFlag("worker", "fail_clear")

\* worker, failed initialisation: clear the flag through the temporary guard,
\* return
LkFailClear ==
    /\ LkAt("worker", "fail_clear")
    /\ lk' = [lk EXCEPT !.pc["worker"] = "done", !.flag = FALSE,
                        !.flag_lock = FlagGuardDropped("worker")]
    /\ lkFrame

\* capture_loop: audio_client.Start(); on failure return
LkClientStart ==
    /\ platform = "windows"
    /\ LkAt("worker", "client_start")
    /\ \E ok \in BOOLEAN :
         lk' = LkGoto(lk, "worker", IF ok THEN "loop_lock" ELSE "done")
    /\ lkFrame

\* loop condition: is_capturing.lock()
LkLoopLock == LkAt("worker", "loop_lock") /\ LockFlag("worker", "loop_test")

\* loop condition: read the flag through the temporary guard
LkLoopTest ==
    /\ LkAt("worker", "loop_test")
    /\ lk' = [lk EXCEPT
                !.pc["worker"] = CASE lk.flag /\ platform = "windows" -> "sleep"
                                   [] lk.flag -> "read"
                                   [] platform = "windows" -> "client_stop"
                                   [] OTHER -> "drain",
                !.flag_lock = FlagGuardDropped("worker")]
    /\ lkFrame

\* capture_loop: std::thread::sleep(10 ms)
LkSleep ==
    /\ platform = "windows"
    /\ LkAt("worker", "sleep")
    /\ lk' = LkGoto(lk, "worker", "packet")
    /\ lkFrame

\* capture_loop: GetNextPacketSize()
LkPacket ==
    /\ platform = "windows"
    /\ LkAt("worker", "packet")
    /\ \E r \in {"err", "zero", "some"} :
         /\ r = "some" => lk.reads < MaxReads
         /\ lk' = LkGoto(lk, "worker",
                         IF r = "zero" THEN "loop_lock"
                         ELSE IF r = "err" THEN "client_stop" ELSE "get_buffer")
    /\ lkFrame

\* capture_loop: GetBuffer()
LkGetBuffer ==
    /\ platform = "windows"
    /\ LkAt("worker", "get_buffer")
    /\ \E r \in {"err", "silent", "audible"} :
         lk' = [lk EXCEPT
                  !.pc["worker"] = CASE r = "err" -> "client_stop"
                                     [] r = "silent" -> "release"
                                     [] OTHER -> "buffer_lock",
                  !.reads = IF r = "err" THEN @ ELSE @ + 1]
    /\ lkFrame

\* worker: audio_buffer.lock()
LkBufferLock == LkAt("worker", "buffer_lock") /\ LockBuffer("worker", "extend")

\* worker: buffer.extend(samples) under the guard; end of the block
LkExtend ==
    /\ LkAt("worker", "extend")
    /\ lk' = [lk EXCEPT
                !.pc["worker"] = IF platform = "windows" THEN "release" ELSE "sleep_1ms",
                !.chunks = @ + 1,
                !.buffer_lock = BufferGuardDropped("worker")]
    /\ lkFrame

\* capture_loop: ReleaseBuffer()
LkRelease ==
    /\ platform = "windows"
    /\ LkAt("worker", "release")
    /\ lk' = LkGoto(lk, "worker", "loop_lock")
    /\ lkFrame

\* capture_loop: audio_client.Stop(); CoUninitialize; the closure returns
LkClientStop ==
    /\ platform = "windows"
    /\ LkAt("worker", "client_stop")
    /\ lk' = LkGoto(lk, "worker", "done")
    /\ lkFrame

\* Linux worker: simple.read(); it returns only once data arrived or failed
LkRead ==
    /\ platform = "linux"
    /\ LkAt("worker", "read")
    /\ \E ok \in BOOLEAN :
         /\ ok => lk.reads < MaxReads
         /\ lk' = [lk EXCEPT
                     !.pc["worker"] = IF ok THEN "buffer_lock" ELSE "drain",
                     !.reads = IF ok THEN @ + 1 ELSE @]
    /\ lkFrame

\* Linux worker: std::thread::sleep(1 ms)
LkSleep1ms ==
    /\ platform = "linux"
    /\ LkAt("worker", "sleep_1ms")
    /\ lk' = LkGoto(lk, "worker", "loop_lock")
    /\ lkFrame

\* Linux worker: simple.drain(); the closure returns
LkDrain ==
    /\ platform = "linux"
    /\ LkAt("worker", "drain")
    /\ lk' = LkGoto(lk, "worker", "done")
    /\ lkFrame

NextLock ==
    \/ LkCall
    \/ LkStartLock \/ LkStartTest \/ LkStartSpawn \/ LkStartSleep
    \/ LkStopLock \/ LkStopTest \/ LkStopJoin
    \/ LkGetLock \/ LkGetDrain
    \/ LkIsCapturingLock \/ LkIsCapturingRead
    \/ LkInit \/ LkFailLock \/ LkFailClear \/ LkClientStart
    \/ LkLoopLock \/ LkLoopTest
    \/ LkSleep \/ LkPacket \/ LkGetBuffer
    \/ LkBufferLock \/ LkExtend
    \/ LkRelease \/ LkClientStop
    \/ LkRead \/ LkSleep1ms \/ LkDrain

SpecLock == Init /\ [][NextLock]_vars

\* Positions at which a thread is in a blocking OS call or a wait
BlockingPcs ==
    {"init", "client_start", "sleep", "packet", "get_buffer", "release",
     "client_stop", "read", "sleep_1ms", "drain", "start_sleep", "stop_join"}

\* Positions at which a thread waits for the flag lock / the buffer lock
FlagLockPcs == {"start_lock", "stop_lock", "is_capturing_lock", "fail_lock", "loop_lock"}
BufferLockPcs == {"get_lock", "buffer_lock"}

\* C21: a thread in a blocking OS call or a wait (read, drain, packet query,
\* GetBuffer, ReleaseBuffer, sleep, join) holds neither the flag lock nor
\* the buffer lock; so with the worker in such a call the flag lock is free
\* for a stop_capture that asks for it.
C21_NoLockAcrossBlockingCall ==
    /\ \A t \in Threads :
          lk.pc[t] \in BlockingPcs => (lk.flag_lock # t /\ lk.buffer_lock # t)
    /\ (lk.pc["worker"] \in BlockingPcs /\ LkAt("caller", "stop_lock"))
          => lk.flag_lock = "free"

\* The worker is stuck in a read that has no data, and stop_capture holds
\* the flag lock
C21_Witness ==
    /\ platform = "linux"
    /\ LkAt("worker", "read")
    /\ lk.reads = MaxReads
    /\ LkAt("caller", "stop_test")
    /\ lk.flag_lock = "caller"

\* C22: no thread holds the flag lock and the buffer lock together; a
\* consumer draining under the buffer lock leaves the flag lock free for the
\* worker's flag check; and no thread waits for a lock held by a thread that
\* itself waits for a lock.
C22_LocksIndependent ==
    /\ \A t \in Threads : ~(lk.flag_lock = t /\ lk.buffer_lock = t)
    /\ (LkAt("caller", "get_drain") /\ LkAt("worker", "loop_lock"))
          => lk.flag_lock = "free"
    /\ \A t \in Threads :
          /\ (lk.pc[t] \in FlagLockPcs /\ lk.flag_lock # "free")
                => lk.pc[lk.flag_lock] \notin FlagLockPcs \cup BufferLockPcs
          /\ (lk.pc[t] \in BufferLockPcs /\ lk.buffer_lock # "free")
                => lk.pc[lk.buffer_lock] \notin FlagLockPcs \cup BufferLockPcs

\* The consumer drains under the buffer lock while the worker reads the flag
\* under the flag lock
C22_Witness ==
    /\ LkAt("caller", "get_drain")
    /\ lk.buffer_lock = "caller"
    /\ LkAt("worker", "loop_test")
    /\ lk.flag_lock = "worker"
    /\ lk.chunks > 0


\* ------------------------------------------------------- device selection
\* start_capture(device_name) after a list_devices() that returned Ok, the
\* endpoints being those that were listed.

selFrame == UNCHANGED <<platform, chunker, stream, svc, tx, mtg, conv, lister, wav, lk, controllerVars>>

DigitChars == <<"0", "1", "2", "3", "4", "5", "6", "7", "8", "9">>

\* format!("{}", n) of an index
Digits(n) ==
    IF n < 10 THEN <<DigitChars[n + 1]>>
    ELSE <<DigitChars[(n \div 10) + 1], DigitChars[(n % 10) + 1]>>

\* Device names: a plain one, and one that itself holds digits and a colon
EntryNames == {<<"n">>, <<"9", ":", "n">>}

\* format!("{}: {} ({})", index, name, role)
EntryText(d, name) == Digits(d.index) \o <<":", " ">> \o name \o <<" ", "(", "r", ")">>

\* Texts that were not taken from the list
SelectorTexts ==
    { <<>>, <<"x">>, <<":">>, <<" ">>, <<"-", "1">>, <<"+", "1">>, <<"1", "x">>,
      <<"x", ":", "1">>, <<" ", "1", " ">>, <<"1", " ", "2">>, <<"1">>, <<"2">>,
      <<"3">>, <<"4">>, <<"9">>, <<"1", ":", "x">>, <<"0", "1">> }

\* name.split(':').next(): the text before the first ':'
SplitNext(text) ==
    LET colons == {k \in 1..Len(text) : text[k] = ":"}
    IN  IF colons = {} THEN text
        ELSE SubSeq(text, 1, (CHOOSE k \in colons : \A j \in colons : k <= j) - 1)

\* str::trim
Trim(text) ==
    LET inked == {k \in 1..Len(text) : text[k] # " "}
    IN  IF inked = {} THEN <<>>
        ELSE SubSeq(text, CHOOSE k \in inked : \A j \in inked : k <= j,
                          CHOOSE k \in inked : \A j \in inked : k >= j)

DigitValue(ch) == CHOOSE v \in 0..9 : DigitChars[v + 1] = ch

IsDigit(ch) == \E v \in 0..9 : DigitChars[v + 1] = ch

\* str::parse::<usize>(): an optional '+', then one or more decimal digits
ParseUsize(text) ==
    LET digits == IF text # <<>> /\ Head(text) = "+" THEN Tail(text) ELSE text
        V[k \in 0..Len(digits)] ==
          IF k = 0 THEN 0 ELSE 10 * V[k - 1] + DigitValue(digits[k])
    IN  IF digits # <<>> /\ \A k \in 1..Len(digits) : IsDigit(digits[k])
        THEN [ok |-> TRUE, value |-> V[Len(digits)]]
        ELSE [ok |-> FALSE, value |-> 0]

\* device_name.and_then(|name| name.split(':').next()?.trim().parse().ok()).unwrap_or(0)
DeviceIndex(given, selector) ==
    IF ~given THEN 0
    ELSE LET parsed == ParseUsize(Trim(SplitNext(selector)))
         IN  IF parsed.ok THEN parsed.value ELSE 0

Endpoint(flow, item) == [flow |-> flow, item |-> item]

\* The default render endpoint (Windows) / @DEFAULT_MONITOR@ (Linux)
DefaultEndpoint == Endpoint("default", 0)

\* mutant of OutOfRange: the index one past the collection is let through
OutOfRangeLax(actual_index, count) == actual_index > count

\* windows.rs get_device_by_index: if actual_index >= count
OutOfRange(actual_index, count) == actual_index >= count

\* windows.rs get_device_by_index over the active render endpoints; ok: the
\* COM calls succeed. Item(i) of a collection of count items fails for i >= count.
get_device_by_index(device_index, count, ok) ==
    IF ~ok THEN [res |-> "Err", endpoint |-> NoSel.endpoint]
    ELSE IF device_index = 0 THEN [res |-> "Ok", endpoint |-> DefaultEndpoint]
    ELSE LET actual_index == device_index - 1
         IN  IF OutOfRange(actual_index, count)
             THEN [res |-> "Ok", endpoint |-> DefaultEndpoint]
             ELSE IF actual_index >= count
             THEN [res |-> "Err", endpoint |-> NoSel.endpoint]
             ELSE [res |-> "Ok", endpoint |-> Endpoint("render", actual_index)]

\* linux.rs: the source that Simple::new is given, by the name resolved
SourceNamed(name, device_index) ==
    IF name = "@DEFAULT_MONITOR@" THEN DefaultEndpoint
    ELSE Endpoint("source named device_N", device_index)

\* start_capture(device_name) is called with None, a text, or an entry of the list
SelCall ==
    /\ sel.pc = "idle"
    /\ lister.pc = "returned"
    /\ lister.fn = "list_devices"
    /\ lister.res = "Ok"
    /\ \/ sel' = [NoSel EXCEPT !.pc = "called", !.count = lister.speakers]
       \/ \E text \in SelectorTexts :
            sel' = [NoSel EXCEPT !.pc = "called", !.given = TRUE, !.selector = text,
                                 !.count = lister.speakers]
       \/ \E k \in 1..Len(lister.devices) : \E name \in EntryNames :
            sel' = [NoSel EXCEPT !.pc = "called", !.given = TRUE,
                                 !.selector = EntryText(lister.devices[k], name),
                                 !.entry = lister.devices[k],
                                 !.count = lister.speakers]
    /\ selFrame

\* windows.rs 693-698 / linux.rs 458-468: the device index of the selector
SelParse ==
    /\ sel.pc = "called"
    /\ sel' = [sel EXCEPT !.pc = "parsed", !.index = DeviceIndex(sel.given, sel.selector)]
    /\ selFrame

\* windows.rs 701-714: get_device_by_index(device_index), Err ends the worker
WinSelResolve ==
    /\ platform = "windows"
    /\ sel.pc = "parsed"
    /\ \E ok \in BOOLEAN :
         LET r == get_device_by_index(sel.index, sel.count, ok)
         IN  sel' = [sel EXCEPT !.pc = "resolved", !.res = r.res,
                                !.endpoint = r.endpoint, !.os_failed = ~ok]
    /\ selFrame

\* linux.rs 470-472: get_device_name_by_index(device_index)?
LinSelResolve ==
    /\ platform = "linux"
    /\ sel.pc = "parsed"
    /\ LET r == get_device_name_by_index(sel.index)
       IN  sel' = [sel EXCEPT !.pc = "resolved",
                              !.res = IF r.ok THEN "Ok" ELSE "Err",
                              !.endpoint = IF r.ok THEN SourceNamed(r.name, sel.index)
                                           ELSE NoSel.endpoint]
    /\ selFrame

\* The listing comes first, then one selection
ListBeforeSelect ==
    /\ sel.pc = "idle"
    /\ NextList

NextSelect ==
    \/ ListBeforeSelect
    \/ SelCall
    \/ SelParse
    \/ WinSelResolve
    \/ LinSelResolve

SpecSelect == Init /\ [][NextSelect]_vars

Resolved == sel.pc = "resolved"

\* The endpoint an entry of the list stands for: entry 0 the default device,
\* a speaker entry the render endpoint (sink) it was pushed for, a microphone
\* entry the capture endpoint (source) it was pushed for
Described(entry, speakers) ==
    IF entry.index = 0 THEN DefaultEndpoint
    ELSE IF entry.kind = "speaker" THEN Endpoint("render", entry.index - 1)
    ELSE Endpoint("capture", entry.index - (speakers + 1))

\* C31: an entry returned by list_devices(), passed as the selector of
\* start_capture, opens the endpoint the entry describes: the default device
\* for index 0, that render endpoint for a speaker entry, that capture
\* endpoint for a microphone entry.
C31_EntryOpensItsEndpoint ==
    (Resolved /\ sel.entry.kind # "none" /\ sel.res = "Ok")
        => sel.endpoint = Described(sel.entry, sel.count)

\* The selector's text has no non-negative integer before its first ':'
NoIndexInText ==
    \/ ~sel.given
    \/ LET head == Trim(SplitNext(sel.selector))
           body == IF head # <<>> /\ Head(head) = "+" THEN Tail(head) ELSE head
       IN  \/ body = <<>>
           \/ \E k \in 1..Len(body) : ~IsDigit(body[k])

\* C32: a selector that is None or has no non-negative integer before its
\* first ':' resolves to index 0; index 0 opens the default device; on
\* Windows an index beyond the active render endpoints opens the default
\* device too; the resolution fails only when an operating-system call
\* fails, never on the selector's text.
C32_SelectorNeverRejected ==
    Resolved =>
        /\ NoIndexInText => sel.index = 0
        /\ (sel.index = 0 /\ sel.res = "Ok") => sel.endpoint = DefaultEndpoint
        /\ (platform = "windows" /\ sel.index > sel.count /\ sel.res = "Ok")
              => sel.endpoint = DefaultEndpoint
        /\ sel.res = "Err" => sel.os_failed
        /\ sel.res \in {"Ok", "Err"}

\* A text without an index and an index one beyond the render endpoints have
\* both been resolved to the default device
C32_Witness ==
    /\ Resolved
    /\ sel.res = "Ok"
    /\ sel.endpoint = DefaultEndpoint
    /\ \/ NoIndexInText /\ sel.given /\ sel.selector # <<>>
       \/ platform = "windows" /\ sel.index = sel.count + 1


\* ------------------------------------------------------- meeting commands
\* commands/meeting.rs: start_meeting and stop_meeting, each a Tauri command
\* that runs concurrently with the other client's command and with the
\* tasks stop_meeting spawned. start_capture is the controller's: the flag
\* test and set, the spawn of the worker, Ok after the 100 ms sleep.

mtgFrame == UNCHANGED <<platform, chunker, stream, svc, tx, sel, conv, lister, wav, lk, controllerVars>>

NoCommand == NoMeetings.fg["c1"]

NoTask == NoMeetings.bg["c1"]

\* The command of client c returns res and drops what it holds
CommandReturns(cmd, res) == [cmd EXCEPT !.pc = "returned", !.res = res]

\* start_meeting is invoked; request.platform is parsed (meeting.rs 54-59)
StartMeetingCall(c) ==
    /\ mtg.fg[c].pc \in {"idle", "returned"}
    /\ mtg.created < MaxMeetings
    /\ \E valid \in BOOLEAN :
         mtg' = [mtg EXCEPT !.fg[c] =
                   IF valid THEN [NoCommand EXCEPT !.fn = "start_meeting", !.pc = "create"]
                   ELSE CommandReturns([NoCommand EXCEPT !.fn = "start_meeting"], "Err")]
    /\ mtgFrame

\* meeting.rs 62-67: storage.create_meeting(&meeting).await with `?`
StartMeetingCreate(c) ==
    /\ mtg.fg[c].pc = "create"
    /\ mtg.created < MaxMeetings
    /\ \E ok \in BOOLEAN :
         LET meeting_id == mtg.created + 1
         IN  mtg' = IF ok
                    THEN [mtg EXCEPT !.created = meeting_id,
                                     !.rows[meeting_id] = [exists |-> TRUE, end_time |-> FALSE],
                                     !.fg[c].id = meeting_id,
                                     !.fg[c].pc = "lock"]
                    ELSE [mtg EXCEPT !.fg[c] = CommandReturns(@, "Err")]
    /\ mtgFrame

\* meeting.rs 73-74: state.audio_capture.lock().await, then start_capture(None)
\* up to its sleep: Err when the flag is set, else the flag is set and the
\* worker is spawned
StartMeetingCapture(c) ==
    /\ mtg.fg[c].pc = "lock"
    /\ mtg.audio_capture = NoOwner
    /\ mtg' = IF mtg.is_capturing
              THEN [mtg EXCEPT !.audio_capture = c, !.fg[c].pc = "cleanup"]
              ELSE [mtg EXCEPT !.audio_capture = c, !.fg[c].pc = "sleep",
                               !.is_capturing = TRUE, !.capture = "init"]
    /\ mtgFrame

\* The worker's initialisation: it enters its loop, or logs the failure,
\* clears the flag and returns (windows.rs 688-780)
CaptureInit ==
    /\ mtg.capture = "init"
    /\ \E ok \in BOOLEAN :
         mtg' = IF ok THEN [mtg EXCEPT !.capture = "running"]
                ELSE [mtg EXCEPT !.capture = "none", !.is_capturing = FALSE]
    /\ mtgFrame

\* windows.rs 795-806: start_capture returns Ok after the sleep;
\* meeting.rs 75-84: current_meeting_id = Some(meeting_id), Ok(meeting_id)
StartMeetingStore(c) ==
    /\ mtg.fg[c].pc = "sleep"
    /\ mtg' = [mtg EXCEPT !.current_meeting_id = mtg.fg[c].id,
                          !.audio_capture = NoOwner,
                          !.fg[c] = CommandReturns(@, "Ok")]
    /\ mtgFrame

\* meeting.rs 86-97: delete_meeting(meeting_id), its failure only logged; Err
StartMeetingCleanup(c) ==
    /\ mtg.fg[c].pc = "cleanup"
    /\ \E ok \in BOOLEAN :
         LET meeting_id == mtg.fg[c].id
         IN  mtg' = IF ok
                    THEN [mtg EXCEPT !.rows[meeting_id].exists = FALSE,
                                     !.audio_capture = NoOwner,
                                     !.fg[c] = CommandReturns(@, "Err")]
                    ELSE [mtg EXCEPT !.delete_failed[meeting_id] = TRUE,
                                     !.audio_capture = NoOwner,
                                     !.fg[c] = CommandReturns(@, "Err")]
    /\ mtgFrame

\* meeting.rs 103-115: stop_meeting(meeting_id), for an id that start_meeting
\* has handed out, spawns the save task
StopMeetingCall(c) ==
    /\ mtg.fg[c].pc \in {"idle", "returned"}
    /\ mtg.bg[c].pc \in {"idle", "done"}
    /\ \E meeting_id \in 1..mtg.created :
         mtg' = [mtg EXCEPT !.fg[c] = [NoCommand EXCEPT !.fn = "stop_meeting",
                                                        !.pc = "clear",
                                                        !.id = meeting_id],
                            !.bg[c] = [NoTask EXCEPT !.pc = "lock", !.id = meeting_id]]
    /\ mtgFrame

\* meeting.rs 198: *state.current_meeting_id.lock().await = None
StopMeetingClear(c) ==
    /\ mtg.fg[c].pc = "clear"
    /\ mtg' = [mtg EXCEPT !.current_meeting_id = 0, !.fg[c].pc = "get"]
    /\ mtgFrame

\* meeting.rs 201-208: get_meeting(meeting_id) with `?` and ok_or_else;
\* meeting.end() on the value read
StopMeetingGet(c) ==
    /\ mtg.fg[c].pc = "get"
    /\ \E ok \in BOOLEAN :
         mtg' = IF ok /\ mtg.rows[mtg.fg[c].id].exists
                THEN [mtg EXCEPT !.fg[c].end_time = TRUE, !.fg[c].pc = "update"]
                ELSE [mtg EXCEPT !.fg[c] = CommandReturns(@, "Err")]
    /\ mtgFrame

\* sqlite.rs update_meeting: UPDATE meetings SET .., end_time = ?4, .. WHERE id = ?6
update_meeting(rows, id, end_time) ==
    IF rows[id].exists THEN [rows EXCEPT ![id].end_time = end_time] ELSE rows

\* meeting.rs 210-217: update_meeting(&meeting) with `?`, Ok(())
StopMeetingUpdate(c) ==
    /\ mtg.fg[c].pc = "update"
    /\ \E ok \in BOOLEAN :
         mtg' = IF ok
                THEN [mtg EXCEPT !.rows = update_meeting(@, mtg.fg[c].id, mtg.fg[c].end_time),
                                 !.fg[c] = CommandReturns(@, "Ok")]
                ELSE [mtg EXCEPT !.fg[c] = CommandReturns(@, "Err")]
    /\ mtgFrame

\* meeting.rs 119-131: the task locks audio_capture, stop_capture (the flag
\* cleared, the worker joined), get_audio_buffer, and releases the lock
SaveTaskStop(c) ==
    /\ mtg.bg[c].pc = "lock"
    /\ mtg.audio_capture = NoOwner
    /\ \E buffer_result \in {"Some", "None", "Err"} :
         mtg' = [mtg EXCEPT !.is_capturing = FALSE, !.capture = "none",
                            !.bg[c].pc = IF buffer_result = "Some" THEN "save" ELSE "done"]
    /\ mtgFrame

\* meeting.rs 136-156: app_data_dir, create_dir_all, save_wav_file
SaveTaskWrite(c) ==
    /\ mtg.bg[c].pc = "save"
    /\ \E ok \in BOOLEAN :
         mtg' = [mtg EXCEPT !.bg[c].pc = IF ok THEN "get" ELSE "done"]
    /\ mtgFrame

\* meeting.rs 164-167: get_meeting(meeting_id); audio_file_path = Some(..)
SaveTaskGet(c) ==
    /\ mtg.bg[c].pc = "get"
    /\ \E ok \in BOOLEAN :
         mtg' = IF ok /\ mtg.rows[mtg.bg[c].id].exists
                THEN [mtg EXCEPT !.bg[c].end_time = mtg.rows[mtg.bg[c].id].end_time,
                                 !.bg[c].audio_file_path = TRUE,
                                 !.bg[c].pc = "update"]
                ELSE [mtg EXCEPT !.bg[c].pc = "done"]
    /\ mtgFrame

\* meeting.rs 168-173: update_meeting(&meeting), its failure only logged
SaveTaskUpdate(c) ==
    /\ mtg.bg[c].pc = "update"
    /\ \E ok \in BOOLEAN :
         mtg' = IF ok
                THEN [mtg EXCEPT !.rows = update_meeting(@, mtg.bg[c].id, mtg.bg[c].end_time),
                                 !.bg[c].pc = "done"]
                ELSE [mtg EXCEPT !.bg[c].pc = "done"]
    /\ mtgFrame

NextMeeting ==
    \/ CaptureInit
    \/ \E c \in Clients :
         \/ StartMeetingCall(c)
         \/ StartMeetingCreate(c)
         \/ StartMeetingCapture(c)
         \/ StartMeetingStore(c)
         \/ StartMeetingCleanup(c)
         \/ StopMeetingCall(c)
         \/ StopMeetingClear(c)
         \/ StopMeetingGet(c)
         \/ StopMeetingUpdate(c)
         \/ SaveTaskStop(c)
         \/ SaveTaskWrite(c)
         \/ SaveTaskGet(c)
         \/ SaveTaskUpdate(c)

SpecMeeting == Init /\ [][NextMeeting]_vars

\* The command fn of client c returns in this step
Returns(c, fn) ==
    /\ mtg.fg[c].fn = fn
    /\ mtg.fg[c].pc # "returned"
    /\ mtg'.fg[c].pc = "returned"

\* C33: start_meeting stores its meeting's id in current_meeting_id only when
\* the capture for that meeting has started, and then returns Ok; when it
\* returns an error it leaves current_meeting_id as it was and has deleted
\* the record it created (unless the storage refused the delete).
C33_CurrentOnlyWithCapture ==
    [][\A c \in Clients :
         Returns(c, "start_meeting") =>
            IF mtg'.fg[c].res = "Ok"
            THEN /\ mtg'.current_meeting_id = mtg.fg[c].id
                 /\ mtg'.is_capturing
                 /\ mtg'.capture # "none"
            ELSE /\ mtg'.current_meeting_id = mtg.current_meeting_id
                 /\ mtg.fg[c].id # 0 =>
                      \/ ~mtg'.rows[mtg.fg[c].id].exists
                      \/ mtg'.delete_failed[mtg.fg[c].id]]_vars

\* C34: once stop_meeting has returned Ok for a meeting and the save task it
\* spawned has finished, the meeting's record has its end_time set.
C34_EndTimeSurvives ==
    \A c \in Clients :
       (/\ mtg.fg[c].fn = "stop_meeting"
        /\ mtg.fg[c].pc = "returned"
        /\ mtg.fg[c].res = "Ok"
        /\ mtg.bg[c].pc = "done"
        /\ mtg.bg[c].id = mtg.fg[c].id
        /\ mtg.rows[mtg.fg[c].id].exists)
          => mtg.rows[mtg.fg[c].id].end_time


\* -------------------------------------------------- transcription commands
\* commands/transcription.rs: start_transcription and get_transcription_status

txFrame == UNCHANGED <<platform, chunker, stream, svc, mtg, sel, conv, lister, wav, lk, controllerVars>>

\* The background task is between its spawn and its return
TaskRunning == tx.task.pc \in {"exists", "transcribe", "store"}

\* Positions of start_transcription after it set the marker
StartingPcs == {"get_meeting", "audio_file", "asr_service", "spawn"}

\* start_transcription(meeting_id, config, state) is invoked
TxCall(c) ==
    /\ tx.cmd[c].pc \in {"idle", "returned"}
    /\ \E meeting_id \in MeetingIds :
         tx' = [tx EXCEPT !.cmd[c] = [pc |-> "check", id |-> meeting_id, res |-> "none"]]
    /\ txFrame

\* transcription.rs 49-64: lock the marker; Some: Err("A transcription is
\* already in progress"); None: *current = Some(meeting_id); drop(current)
TxCheck(c) ==
    /\ tx.cmd[c].pc = "check"
    /\ tx' = IF tx.current_transcription # 0
             THEN [tx EXCEPT !.cmd[c].pc = "returned",
                             !.cmd[c].res = "AlreadyInProgress",
                             !.idle_reject =
                                 \/ @
                                 \/ /\ ~TaskRunning
                                    /\ \A d \in Clients : tx.cmd[d].pc \notin StartingPcs]
             ELSE [tx EXCEPT !.current_transcription = tx.cmd[c].id,
                             !.cmd[c].pc = "get_meeting"]
    /\ txFrame

\* A `?` of start_transcription returns Err from where the command stands
TxErr(c) == [tx EXCEPT !.cmd[c].pc = "returned", !.cmd[c].res = "Err"]

\* transcription.rs 68-80: get_meeting(meeting_id) .map_err(..)? .ok_or_else(..)?
TxGetMeeting(c) ==
    /\ tx.cmd[c].pc = "get_meeting"
    /\ \E found \in BOOLEAN :
         tx' = IF found THEN [tx EXCEPT !.cmd[c].pc = "audio_file"] ELSE TxErr(c)
    /\ txFrame

\* transcription.rs 91-99: meeting.audio_file_path.ok_or_else(..)?
TxAudioFile(c) ==
    /\ tx.cmd[c].pc = "audio_file"
    /\ \E has_path \in BOOLEAN :
         tx' = IF has_path THEN [tx EXCEPT !.cmd[c].pc = "asr_service"] ELSE TxErr(c)
    /\ txFrame

\* transcription.rs 109-116: get_active_asr_service(..).await.map_err(..)?
TxAsrService(c) ==
    /\ tx.cmd[c].pc = "asr_service"
    /\ \E ok \in BOOLEAN :
         tx' = IF ok THEN [tx EXCEPT !.cmd[c].pc = "spawn"] ELSE TxErr(c)
    /\ txFrame

\* transcription.rs 190-286: tokio::spawn(async move {..}); Ok(())
TxSpawn(c) ==
    /\ tx.cmd[c].pc = "spawn"
    /\ tx' = [tx EXCEPT !.task = [pc |-> "exists", id |-> tx.cmd[c].id],
                        !.cmd[c].pc = "returned", !.cmd[c].res = "Ok"]
    /\ txFrame

\* The task clears the marker and returns
TaskEnds == [tx EXCEPT !.current_transcription = 0, !.task.pc = "done"]

\* transcription.rs 216-221: the audio file does not exist: marker None, return
TaskFileExists ==
    /\ tx.task.pc = "exists"
    /\ \E exists \in BOOLEAN :
         tx' = IF exists THEN [tx EXCEPT !.task.pc = "transcribe"] ELSE TaskEnds
    /\ txFrame

\* transcription.rs 223-239: transcribe_file(..).await; Err: marker None, return
TaskTranscribe ==
    /\ tx.task.pc = "transcribe"
    /\ \E ok \in BOOLEAN :
         tx' = IF ok THEN [tx EXCEPT !.task.pc = "store"] ELSE TaskEnds
    /\ txFrame

\* transcription.rs 270-283: create_transcripts_batch (its failure logged),
\* then *current_transcription.lock().await = None
TaskStore ==
    /\ tx.task.pc = "store"
    /\ tx' = TaskEnds
    /\ txFrame

\* transcription.rs 289-302: get_transcription_status returns Ok(*current)
TxStatus(c) ==
    /\ tx.status[c] # tx.current_transcription
    /\ tx' = [tx EXCEPT !.status[c] = tx.current_transcription]
    /\ txFrame

NextTranscribe ==
    \/ TaskFileExists
    \/ TaskTranscribe
    \/ TaskStore
    \/ \E c \in Clients :
         \/ TxCall(c)
         \/ TxCheck(c)
         \/ TxGetMeeting(c)
         \/ TxAudioFile(c)
         \/ TxAsrService(c)
         \/ TxSpawn(c)
         \/ TxStatus(c)

SpecTranscribe == Init /\ [][NextTranscribe]_vars

\* C35: the marker is Some(meeting_id) exactly while a transcription of that
\* meeting is being started or runs in the background: it is None whenever
\* none does, whichever way start_transcription or the task ended, and no
\* start is rejected as already in progress while nothing runs.
C35_MarkerFollowsTask ==
    /\ \A m \in MeetingIds :
         tx.current_transcription = m
            <=> \/ TaskRunning /\ tx.task.id = m
                \/ \E c \in Clients : tx.cmd[c].pc \in StartingPcs /\ tx.cmd[c].id = m
    /\ ~tx.idle_reject


\* ------------------------------------------------------ service activation
\* commands/config.rs activate_service over the service_configs table

svcFrame == UNCHANGED <<platform, chunker, stream, tx, mtg, sel, conv, lister, wav, lk, controllerVars>>

\* sqlite.rs save_service_config: UPDATE .. SET is_active WHERE service_type
\* AND provider; INSERT when no row was updated
save_service_config(rows, cfg, is_active) ==
    [rows EXCEPT ![cfg] = [exists |-> TRUE, is_active |-> is_active]]

\* sqlite.rs list_service_configs, the rows of service_type only (the loop
\* of activate_service skips the others)
list_service_configs(rows, service_type) ==
    SelectSeq(ConfigOrder, LAMBDA cfg : rows[cfg].exists /\ cfg.service_type = service_type)

\* config.rs 297-301: cfg.is_active = (cfg.provider == provider)
IsActiveFor(cfg, provider) == cfg.provider = provider

\* activate_service returns Err, having saved a configuration before or not
SvcErr(c) ==
    [svc EXCEPT !.call[c].pc = "returned", !.call[c].res = "Err",
                !.partial[svc.call[c].config.service_type] = @ \/ svc.call[c].wrote]

\* config.rs 237-250: activate_service(service_type, provider); without an
\* API key in the keychain it returns Err
ActivateCall(c) ==
    /\ svc.call[c].pc \in {"idle", "returned"}
    /\ \E cfg \in Configs : \E has_api_key \in BOOLEAN :
         svc' = [svc EXCEPT !.call[c] =
                   [pc |-> IF has_api_key THEN "get" ELSE "returned",
                    config |-> cfg, todo |-> <<>>, wrote |-> FALSE,
                    res |-> IF has_api_key THEN "none" ELSE "Err"]]
    /\ svcFrame

\* config.rs 253-257: get_service_config(&service_type, &provider) with `?`
ActivateGet(c) ==
    /\ svc.call[c].pc = "get"
    /\ \E ok \in BOOLEAN :
         svc' = IF ~ok THEN SvcErr(c)
                ELSE [svc EXCEPT !.call[c].pc =
                        IF svc.rows[svc.call[c].config].exists THEN "list" ELSE "create"]
    /\ svcFrame

\* config.rs 260-285: no configuration: save a default one, not active
ActivateCreate(c) ==
    /\ svc.call[c].pc = "create"
    /\ \E ok \in BOOLEAN :
         svc' = IF ~ok THEN SvcErr(c)
                ELSE [svc EXCEPT !.rows = save_service_config(@, svc.call[c].config, FALSE),
                                 !.call[c].wrote = TRUE,
                                 !.call[c].pc = "list"]
    /\ svcFrame

\* config.rs 288-292: list_service_configs() with `?`
ActivateList(c) ==
    /\ svc.call[c].pc = "list"
    /\ \E ok \in BOOLEAN :
         svc' = IF ~ok THEN SvcErr(c)
                ELSE [svc EXCEPT !.call[c].pc = "loop",
                                 !.call[c].todo =
                                    list_service_configs(svc.rows, svc.call[c].config.service_type)]
    /\ svcFrame

\* config.rs 294-308: the next configuration of the type is saved, active
\* if it is the provider's, with `?`
ActivateSave(c) ==
    /\ svc.call[c].pc = "loop"
    /\ svc.call[c].todo # <<>>
    /\ \E ok \in BOOLEAN :
         LET cfg == Head(svc.call[c].todo)
         IN  svc' = IF ~ok THEN SvcErr(c)
                    ELSE [svc EXCEPT
                            !.rows = save_service_config(@, cfg,
                                        IsActiveFor(cfg, svc.call[c].config.provider)),
                            !.call[c].wrote = TRUE,
                            !.call[c].todo = Tail(@)]
    /\ svcFrame

\* config.rs 311: Ok(())
ActivateReturn(c) ==
    /\ svc.call[c].pc = "loop"
    /\ svc.call[c].todo = <<>>
    /\ svc' = [svc EXCEPT !.call[c].pc = "returned", !.call[c].res = "Ok",
                          !.activated[svc.call[c].config.service_type] = TRUE]
    /\ svcFrame

NextActivate ==
    \E c \in Clients :
       \/ ActivateCall(c)
       \/ ActivateGet(c)
       \/ ActivateCreate(c)
       \/ ActivateList(c)
       \/ ActivateSave(c)
       \/ ActivateReturn(c)

SpecActivate == Init /\ [][NextActivate]_vars

\* The configurations of a type that are active
ActiveConfigs(t) ==
    {cfg \in Configs : cfg.service_type = t /\ svc.rows[cfg].exists /\ svc.rows[cfg].is_active}

\* Every activate_service call has returned
AllReturned == \A c \in Clients : svc.call[c].pc \in {"idle", "returned"}

\* C36: once every activate_service call has returned, a type for which a
\* call returned Ok (and none broke off on a storage error) has exactly one
\* active configuration; after a call that ran alone it is the provider given.
C36_ExactlyOneActive ==
    AllReturned =>
        \A t \in ServiceTypes :
           (svc.activated[t] /\ ~svc.partial[t])
              => Cardinality(ActiveConfigs(t)) = 1


\* ---------------------------------------------------- streaming commands
\* commands/streaming.rs. Every command locks active_session first and
\* holds the guard until it returns.

streamFrame == UNCHANGED <<platform, chunker, svc, tx, mtg, sel, conv, lister, wav, lk, controllerVars>>

\* A command is invoked and takes the active_session lock
StreamEnter(c, fn, id, pc) ==
    [stream EXCEPT !.lock = c,
                   !.cmd[c] = [fn |-> fn, pc |-> pc, id |-> id,
                               session |-> NoSession, res |-> "none"]]

\* The command returns res and its guard is dropped
StreamLeave(s, c, res) ==
    [s EXCEPT !.lock = NoOwner, !.cmd[c].pc = "returned", !.cmd[c].res = res]

CanEnter(c) ==
    /\ stream.cmd[c].pc \in {"idle", "returned"}
    /\ stream.lock = NoOwner

\* streaming.rs 129-133: if active_session.is_some() { return Err(..) }
RejectStart(active_session) == active_session # NoSession

\* streaming.rs 116-133: start_streaming_transcription(meeting_id, config)
StreamStartCall(c) ==
    /\ CanEnter(c)
    /\ \E meeting_id \in MeetingIds :
         LET s == StreamEnter(c, "start", meeting_id, "config")
         IN  stream' = IF RejectStart(stream.active_session)
                       THEN StreamLeave(s, c, "AlreadyActive")
                       ELSE s
    /\ streamFrame

\* streaming.rs 136-164: the config given, or the active service's; no
\* active service and a storage error return Err
StreamStartConfig(c) ==
    /\ stream.cmd[c].pc = "config"
    /\ \E ok \in BOOLEAN :
         stream' = IF ok THEN [stream EXCEPT !.cmd[c].pc = "service"]
                   ELSE StreamLeave(stream, c, "Err")
    /\ streamFrame

\* streaming.rs 167-177: get_active_asr_service(..)?; supports_streaming()
StreamStartService(c) ==
    /\ stream.cmd[c].pc = "service"
    /\ \E ok \in BOOLEAN :
         stream' = IF ok THEN [stream EXCEPT !.cmd[c].pc = "connect"]
                   ELSE StreamLeave(stream, c, "Err")
    /\ streamFrame

\* streaming.rs 186-199: start_streaming(..)?; *active_session = Some(session);
\* meeting_id = Some(meeting_id); Ok(())
StreamStartConnect(c) ==
    /\ stream.cmd[c].pc = "connect"
    /\ \E ok \in BOOLEAN :
         stream' = IF ok
                   THEN StreamLeave([stream EXCEPT
                                       !.active_session = [meeting |-> stream.cmd[c].id, by |-> c],
                                       !.meeting_id = stream.cmd[c].id], c, "Ok")
                   ELSE StreamLeave(stream, c, "Err")
    /\ streamFrame

\* streaming.rs 203-211, 227-229: stop_streaming_transcription: active_session.take()
StreamStopCall(c) ==
    /\ CanEnter(c)
    /\ LET s == StreamEnter(c, "stop", 0, "flush")
       IN  stream' = IF stream.active_session # NoSession
                     THEN [s EXCEPT !.active_session = NoSession,
                                    !.cmd[c].session = stream.active_session]
                     ELSE StreamLeave(s, c, "NoSession")
    /\ streamFrame

\* streaming.rs 212-215: session.flush().await.map_err(..)?
StreamStopFlush(c) ==
    /\ stream.cmd[c].pc = "flush"
    /\ \E ok \in BOOLEAN :
         stream' = IF ok THEN [stream EXCEPT !.cmd[c].pc = "close"]
                   ELSE StreamLeave(stream, c, "Err")
    /\ streamFrame

\* streaming.rs 217-226: session.close().await.map_err(..)?; meeting_id = None; Ok(())
StreamStopClose(c) ==
    /\ stream.cmd[c].pc = "close"
    /\ \E ok \in BOOLEAN :
         stream' = IF ok THEN StreamLeave([stream EXCEPT !.meeting_id = 0], c, "Ok")
                   ELSE StreamLeave(stream, c, "Err")
    /\ streamFrame

\* streaming.rs 232-249: send_audio_chunk: send_audio on the session, or Err
SendAudioChunk(c) ==
    /\ CanEnter(c)
    /\ \E ok \in BOOLEAN :
         stream' = StreamLeave(StreamEnter(c, "send", 0, "send"), c,
                               IF stream.active_session = NoSession THEN "NoSession"
                               ELSE IF ok THEN "Ok" ELSE "Err")
    /\ streamFrame

\* streaming.rs 252-263: get_streaming_transcription_status
StreamStatus(c) ==
    /\ CanEnter(c)
    /\ stream' = [StreamLeave(StreamEnter(c, "status", 0, "status"), c, "Ok")
                    EXCEPT !.status[c] = [is_active |-> stream.active_session # NoSession,
                                          meeting_id |-> stream.meeting_id]]
    /\ streamFrame

NextStream ==
    \E c \in Clients :
       \/ StreamStartCall(c)
       \/ StreamStartConfig(c)
       \/ StreamStartService(c)
       \/ StreamStartConnect(c)
       \/ StreamStopCall(c)
       \/ StreamStopFlush(c)
       \/ StreamStopClose(c)
       \/ SendAudioChunk(c)
       \/ StreamStatus(c)

SpecStream == Init /\ [][NextStream]_vars

\* C37: every status report has is_active true exactly when its meeting_id
\* is Some, and whenever no command runs active_session and meeting_id are
\* both set or both cleared, whichever way start and stop ended; a start
\* over a stored session is rejected and leaves the session in place; stop
\* and send_audio_chunk without a session return the no-session error.
C37_SessionAndMeetingTogether ==
    /\ [](\A c \in Clients :
            stream.status[c].is_active <=> stream.status[c].meeting_id # 0)
    /\ [](stream.lock = NoOwner
            => (stream.active_session # NoSession <=> stream.meeting_id # 0))
    /\ [][\A c \in Clients :
            (stream.cmd[c].pc # "returned" /\ stream'.cmd[c].pc = "returned") =>
               /\ (stream'.cmd[c].fn = "start" /\ stream.active_session # NoSession
                   /\ stream.lock = NoOwner)
                     => /\ stream'.cmd[c].res = "AlreadyActive"
                        /\ stream'.active_session = stream.active_session
               /\ (stream'.cmd[c].fn \in {"stop", "send"} /\ stream.active_session = NoSession
                   /\ stream.lock = NoOwner)
                     => stream'.cmd[c].res = "NoSession"]_vars


\* ------------------------------------------------------------ WAV chunks
\* utils/audio_file.rs save_wav_chunks

chunkFrame == UNCHANGED <<platform, stream, svc, tx, mtg, sel, conv, lister, wav, lk, controllerVars>>

\* Two sample values, so that the order of the samples shows
ChunkSamples == {Sample(1, 2), Sample(-1, 1)}

\* Formats of few samples per second, so that chunks of one or two seconds
\* hold one to eight samples
ChunkFormats == {AudioFormat(rate, ch, 16) : rate \in {1, 2}, ch \in {1, 2}}

ChunkDurations == {0, 1, 2}

\* mutant of SliceChunks: the shorter last chunk is dropped (chunks_exact)
SliceChunksDropTail(samples, size) == ChunksExact(samples, size)

\* slice::chunks(size), size > 0: consecutive runs of size elements, the
\* last one shorter when the length is not a multiple of size
SliceChunks(samples, size) ==
    [k \in 1..((Len(samples) + size - 1) \div size) |->
        SubSeq(samples, (k - 1) * size + 1,
               IF k * size < Len(samples) THEN k * size ELSE Len(samples))]

\* format!("_{:03}", chunk_index)
ChunkSuffix(chunk_index) ==
    <<"_">> \o (IF chunk_index < 10 THEN <<"0", "0">>
                ELSE IF chunk_index < 100 THEN <<"0">> ELSE <<>>)
            \o Digits(chunk_index)

\* A buffer and a chunk duration are handed to save_wav_chunks
InitChunks ==
    /\ platform \in Platforms
    /\ ControllerNew
    /\ conv = NoConv
    /\ lister = NoLister
    /\ wav = NoWav
    /\ lk = NoLocks
    /\ stream = NoStreaming
    /\ svc = NoServices
    /\ tx = NoTranscription
    /\ mtg = NoMeetings
    /\ sel = NoSel
    /\ \E fmt \in ChunkFormats, secs \in ChunkDurations,
          samples \in UNION {[1..n -> ChunkSamples] : n \in 0..MaxChunkSamples} :
         chunker = [NoChunks EXCEPT !.samples = samples, !.format = fmt,
                                    !.chunk_duration_secs = secs]

\* audio_file.rs 70-90: samples_per_chunk; buffer.samples.chunks(..), which
\* panics for a chunk size of 0
ChunksCall ==
    /\ chunker.pc = "idle"
    /\ LET samples_per_chunk == chunker.format.sample_rate * chunker.format.channels
                                    * chunker.chunk_duration_secs
       IN  chunker' = IF samples_per_chunk = 0
                      THEN [chunker EXCEPT !.pc = "returned", !.res = "panic"]
                      ELSE [chunker EXCEPT !.pc = "loop",
                                           !.todo = SliceChunks(chunker.samples,
                                                                samples_per_chunk)]
    /\ chunkFrame

\* audio_file.rs 90-102: chunk_index += 1; the chunk's buffer is saved with
\* save_wav_file(..)? and its path pushed
ChunkSave ==
    /\ chunker.pc = "loop"
    /\ chunker.todo # <<>>
    /\ \E ok \in BOOLEAN :
         LET chunk == Head(chunker.todo)
             chunk_index == chunker.chunk_index + 1
             file == [suffix |-> ChunkSuffix(chunk_index),
                      samples |-> chunk,
                      written |-> [k \in 1..Len(chunk) |-> F32ToI16(chunk[k])]]
         IN  chunker' = IF ok
                        THEN [chunker EXCEPT !.chunk_index = chunk_index,
                                             !.files = Append(@, file),
                                             !.todo = Tail(@)]
                        ELSE [chunker EXCEPT !.chunk_index = chunk_index,
                                             !.pc = "returned", !.res = "Err"]
    /\ chunkFrame

\* audio_file.rs 104-105: Ok(created_files)
ChunksReturn ==
    /\ chunker.pc = "loop"
    /\ chunker.todo = <<>>
    /\ chunker' = [chunker EXCEPT !.pc = "returned", !.res = "Ok"]
    /\ chunkFrame

NextChunks ==
    \/ ChunksCall
    \/ ChunkSave
    \/ ChunksReturn

SpecChunks == InitChunks /\ [][NextChunks]_vars

\* The samples of the first k files, one after the other
Concatenated(files, field) ==
    LET F[k \in 0..Len(files)] ==
          IF k = 0 THEN <<>> ELSE F[k - 1] \o files[k][field]
    IN  F[Len(files)]

\* C38: with c = sample_rate * channels * chunk_duration_secs > 0 and n
\* samples, save_wav_chunks returning Ok has created ceil(n / c) files,
\* numbered _001, _002, ... in order; every file but the last holds exactly c
\* samples, the last between 1 and c; the files' samples one after the other
\* are the buffer's samples (written as their 16-bit conversions).
C38_ChunksPartitionBuffer ==
    LET c == chunker.format.sample_rate * chunker.format.channels
                 * chunker.chunk_duration_secs
        n == Len(chunker.samples)
        files == chunker.files
    IN  (chunker.pc = "returned" /\ chunker.res = "Ok" /\ c > 0)
           => /\ Len(files) * c >= n
              /\ (Len(files) - 1) * c < n \/ (n = 0 /\ files = <<>>)
              /\ \A k \in 1..Len(files) :
                   /\ files[k].suffix = <<"_", "0", "0", DigitChars[k + 1]>>
                   /\ k < Len(files) => Len(files[k].samples) = c
                   /\ Len(files[k].samples) \in 1..c
                   /\ Len(files[k].written) = Len(files[k].samples)
              /\ Concatenated(files, "samples") = chunker.samples
              /\ Concatenated(files, "written")
                    = [k \in 1..n |-> F32ToI16(chunker.samples[k])]

\* A buffer whose length is not a multiple of the chunk size has been saved
\* as several files
C38_Witness ==
    /\ chunker.pc = "returned"
    /\ chunker.res = "Ok"
    /\ Len(chunker.files) >= 2
    /\ Len(chunker.files[Len(chunker.files)].samples) < Len(chunker.files[1].samples)
    /\ chunker.files[1].samples # chunker.files[2].samples

====
